---- MODULE Spec2Model ----
(***************************************************************************)
(* State-machine model of SimpleSyncCoordinator                             *)
(* (custom_components/ha_two_way_sync/__init__.py): one link between two    *)
(* entities of the Home Assistant state store.  Coroutines are modelled     *)
(* with one action per run-to-next-suspension step; the suspension points   *)
(* are the awaits on hass.services.async_call, asyncio.sleep and on the     *)
(* progressive mirror task.                                                 *)
(***************************************************************************)
EXTENDS Integers, Sequences, FiniteSets, TLC

VARIABLES
    config,               \* config_entry.data: entity1, entity2, sync_mode
    env,                  \* environment of the run: offered inputs, executor faults
    store,                \* hass.states: entity id -> State or None
    loaded,               \* hass.data[DOMAIN] holds the coordinator
    enabled,              \* self.enabled
    listeners,            \* self._unsubscribe_listeners (entity each handle tracks)
    sync_in_progress,     \* self._sync_in_progress
    last_sync_times,      \* self._last_sync_times: sync key -> age in ms
    state_cache,          \* self._state_cache: cache key -> fingerprint, age in ms
    tasks,                \* asyncio tasks running _immediate_sync
    last_master_entity,   \* self._last_master_entity
    procs,                \* suspended activations of _sync_to_entity
    events,               \* state_changed callbacks scheduled on the event loop
    calls,                \* service calls accepted by hass.services, not yet applied
    sent,                 \* history: the service calls the coordinator invoked
    ext,                  \* history: changes made by hand so far, and whether
                          \* the newest state of each entity has been mirrored
    req,                  \* history: service requests made to the link so far
    syncing,              \* self._syncing: "unset" until a debug manual sync assigns it
    setup_error,          \* async_setup_entry returned False: the entry stays unloaded
    state_history,        \* MockTwoWaySync._state_history: records per entity
    action_states,        \* self._action_states: phase, age and master per entity
    services,             \* hass.services of the domain: name -> entry whose setup registered it
    other_entries         \* hass.data[DOMAIN]: the loaded entries other than the link's

vars == <<config, env, store, loaded, enabled, listeners, sync_in_progress,
          last_sync_times, state_cache, tasks, last_master_entity, procs,
          events, calls, sent, ext, req, syncing, setup_error, state_history,
          action_states, services, other_entries>>

coordVars == <<enabled, listeners, sync_in_progress, last_sync_times,
               state_cache, tasks, last_master_entity, procs>>

----------------------------------------------------------------------------
(* Bounds of the model *)

\* external changes made to the entities in one behaviour
MaxExternal == 3
\* length of the recorded history of invoked service calls
MaxSent == 3
\* entries of the integration besides the link's
MaxOtherEntries == 1
\* service requests (manual sync, enable, disable) made to the link
MaxOps == 1
\* how often a switch is switched by hand while the clock moves in short steps
MaxSwitched == 2
\* a step of the clock shorter than the cooldown
ShortTickMs == 100
\* calls kept in the history where the syncs of a second are counted
BatchSent == 6
\* changes made by hand to a switch of a link at rest
DupChanges == 5
\* the step of the clock of the action states, and where their ages saturate
ActionTickMs == 2000
ActionAgeCap == 4000
\* the step of the clock of the bounce detector: more than its 5 s window
BounceTickMs == 6000
\* granularity of the clock, in ms
TickMs == 250

(* Program constants, in ms *)
SyncCooldownMs == 150
DuplicateWindowMs == 1000
AgeCap == DuplicateWindowMs

----------------------------------------------------------------------------
(* Values *)

NoAttrs == [k \in {} |-> 0]
Id(d, n) == [domain |-> d, name |-> n]
NoId == Id("", "")
None == [entity_id |-> NoId, state |-> "", attributes |-> NoAttrs]
State(id, s, a) == [entity_id |-> id, state |-> s, attributes |-> a]

\* entity_id.split(".")[0]
DomainOf(entity_id) == entity_id.domain

\* dict.get(key): <<>> stands for Python's None
Get(attributes, k) == IF k \in DOMAIN attributes THEN <<attributes[k]>> ELSE <<>>
Restrict(f, S) == [k \in (S \cap DOMAIN f) |-> f[k]]
\* dict.update: the entries of g override those of f
Update(f, g) == g @@ f

SeqToSet(s) == {s[i] : i \in 1..Len(s)}
Min(a, b) == IF a < b THEN a ELSE b

entity1_id == config.entity1
entity2_id == config.entity2
Entities == {entity1_id, entity2_id}
Other(e) == IF e = entity1_id THEN entity2_id ELSE entity1_id
SyncKey(source, target) == <<source, target>>

----------------------------------------------------------------------------
(* Transition type detector *)

progressive_attributes(domain) ==
    CASE domain = "light" -> <<"brightness", "color_temp", "rgb_color", "xy_color", "hs_color">>
      [] domain = "cover" -> <<"position", "tilt_position">>
      [] domain = "climate" -> <<"temperature", "target_temp_high", "target_temp_low">>
      [] domain = "fan" -> <<"percentage", "speed">>
      [] domain = "media_player" -> <<"volume_level">>
      [] domain = "humidifier" -> <<"humidity">>
      [] domain = "water_heater" -> <<"temperature">>
      [] OTHER -> <<>>

is_progressive_device(entity_id) ==
    /\ store[entity_id] # None
    /\ progressive_attributes(DomainOf(store[entity_id].entity_id)) # <<>>

get_progressive_attributes(entity_id) ==
    IF store[entity_id] = None THEN <<>>
    ELSE progressive_attributes(DomainOf(store[entity_id].entity_id))

AnyAttrDiffers(attrs, old_state, new_state) ==
    \E i \in 1..Len(attrs) :
        Get(old_state.attributes, attrs[i]) # Get(new_state.attributes, attrs[i])

\* a variant that takes a flip of the state for a progressive change as well
has_progressive_change_or_flip(old_state, new_state) ==
    /\ old_state # None
    /\ new_state # None
    /\ \/ old_state.state # new_state.state
       \/ AnyAttrDiffers(get_progressive_attributes(new_state.entity_id), old_state, new_state)

has_progressive_change(old_state, new_state) ==
    /\ old_state # None
    /\ new_state # None
    /\ AnyAttrDiffers(get_progressive_attributes(new_state.entity_id), old_state, new_state)

----------------------------------------------------------------------------
(* Change classifier *)

important_attrs(domain) ==
    CASE domain = "light" -> <<"brightness", "color_temp", "rgb_color", "xy_color", "hs_color">>
      [] domain = "fan" -> <<"speed", "percentage", "preset_mode", "oscillating">>
      [] domain = "climate" -> <<"temperature", "target_temp_high", "target_temp_low", "hvac_mode", "fan_mode">>
      [] domain = "cover" -> <<"position", "tilt_position">>
      [] domain = "media_player" -> <<"volume_level", "source", "sound_mode">>
      [] domain = "humidifier" -> <<"humidity", "mode">>
      [] domain = "water_heater" -> <<"temperature", "operation_mode">>
      [] OTHER -> <<>>

check_important_attrs_changed(new_state, old_state) ==
    AnyAttrDiffers(important_attrs(DomainOf(new_state.entity_id)), old_state, new_state)

light_attrs == <<"brightness", "color_temp", "rgb_color", "xy_color", "hs_color", "effect", "white_value">>

\* last_changed moves only when the discrete state moves, so the time test of
\* lines 528-536 is reached only with equal last_changed and adds nothing.
is_significant_change(new_state, old_state) ==
    \/ old_state = None
    \/ new_state.state # old_state.state
    \/ check_important_attrs_changed(new_state, old_state)
    \/ /\ DomainOf(new_state.entity_id) = "light"
       /\ AnyAttrDiffers(light_attrs, old_state, new_state)

----------------------------------------------------------------------------
(* Attribute translator *)

Abs(x) == IF x < 0 THEN -x ELSE x

\* test_sync.py: the thresholds its checks expect (old/new are <<v>> or <<>>)
should_sync_brightness(old_brightness, new_brightness) ==
    IF old_brightness = <<>> \/ new_brightness = <<>> THEN TRUE
    ELSE Abs(old_brightness[1] - new_brightness[1]) >= 5

should_sync_color_temp(old_temp, new_temp) ==
    IF old_temp = <<>> \/ new_temp = <<>> THEN TRUE
    ELSE Abs(old_temp[1] - new_temp[1]) >= 10

ValidBrightness(v) == 0 <= v /\ v <= 255
ValidColorTemp(v) == 100 <= v /\ v <= 1000
ValidHs(v) == Len(v) = 2 /\ 0 <= v[1] /\ v[1] <= 360 /\ 0 <= v[2] /\ v[2] <= 100
ValidRgb(v) == Len(v) = 3 /\ \A i \in 1..3 : 0 <= v[i] /\ v[i] <= 255
ValidXy(v) == Len(v) = 2 /\ \A i \in 1..2 : 0 <= v[i] /\ v[i] <= 1

ValidLightAttr(k, v) ==
    CASE k = "brightness" -> ValidBrightness(v)
      [] k = "color_temp" -> ValidColorTemp(v)
      [] k = "hs_color" -> ValidHs(v)
      [] k = "rgb_color" -> ValidRgb(v)
      [] k = "xy_color" -> ValidXy(v)
      [] OTHER -> FALSE

\* a variant that gives the whole state up when one attribute is invalid
validate_all_or_nothing(attributes) ==
    IF \A k \in DOMAIN attributes : ValidLightAttr(k, attributes[k]) THEN attributes ELSE NoAttrs

validate_light_attributes(attributes) ==
    Restrict(attributes, {k \in DOMAIN attributes : ValidLightAttr(k, attributes[k])})

\* priority hs_color > rgb_color > xy_color > color_temp
\* a variant that passes on every colour attribute the source carries
color_attrs_unselected(validated_attrs) ==
    Restrict(validated_attrs, {"hs_color", "rgb_color", "xy_color", "color_temp"})

color_attrs(validated_attrs) ==
    IF "hs_color" \in DOMAIN validated_attrs THEN Restrict(validated_attrs, {"hs_color"})
    ELSE IF "rgb_color" \in DOMAIN validated_attrs THEN Restrict(validated_attrs, {"rgb_color"})
    ELSE IF "xy_color" \in DOMAIN validated_attrs THEN Restrict(validated_attrs, {"xy_color"})
    ELSE IF "color_temp" \in DOMAIN validated_attrs THEN Restrict(validated_attrs, {"color_temp"})
    ELSE NoAttrs

Call(target, domain, service, data) ==
    [target |-> target, domain |-> domain, service |-> service, data |-> data]

OnOff(source_state) == IF source_state.state = "on" THEN "turn_on" ELSE "turn_off"

is_on(source_state) ==
    source_state.state \in {"on", "open", "playing", "cleaning", "heating",
                            "cooling", "auto", "heat", "cool"}

\* the service call of the cover branch, shared by _immediate_sync and _perfect_sync
cover_action(source_state, target) ==
    IF source_state.state = "open" THEN <<Call(target, "cover", "open_cover", NoAttrs)>>
    ELSE IF source_state.state = "closed" THEN <<Call(target, "cover", "close_cover", NoAttrs)>>
    ELSE IF "position" \in DOMAIN source_state.attributes
         THEN <<Call(target, "cover", "set_cover_position",
                     Restrict(source_state.attributes, {"position"}))>>
    ELSE <<>>

immediate_light_data(source_state) ==
    LET validated_attrs == validate_light_attributes(source_state.attributes)
    IN  Update(Restrict(validated_attrs, {"brightness"}), color_attrs(validated_attrs))

\* _immediate_sync: the service calls (none or one) it makes for a source state
immediate_sync(source_state, target) ==
    LET source_domain == DomainOf(source_state.entity_id)
        target_domain == DomainOf(target)
    IN  IF store[target] = None THEN <<>>
        ELSE IF source_domain = "light" THEN
            IF source_state.state = "on"
            THEN <<Call(target, "light", "turn_on", immediate_light_data(source_state))>>
            ELSE <<Call(target, "light", "turn_off", NoAttrs)>>
        ELSE IF source_domain = "switch" THEN
            <<Call(target, "switch", OnOff(source_state), NoAttrs)>>
        ELSE IF source_domain = "cover" THEN cover_action(source_state, target)
        ELSE IF source_domain = "fan" THEN
            IF source_state.state = "on"
            THEN <<Call(target, "fan", "turn_on",
                        Restrict(source_state.attributes,
                                 {"speed", "percentage", "preset_mode", "oscillating"}))>>
            ELSE <<Call(target, "fan", "turn_off", NoAttrs)>>
        ELSE IF target_domain \in {"light", "switch", "fan", "humidifier", "input_boolean"} THEN
            <<Call(target, target_domain,
                   IF is_on(source_state) THEN "turn_on" ELSE "turn_off", NoAttrs)>>
        ELSE <<>>

----------------------------------------------------------------------------
(* Sync executor: _sync_to_entity and the routines it awaits.  A step is the *)
(* run up to the next suspension point: pc names the await the activation    *)
(* is suspended in, call the service call invoked on the way there (if any), *)
(* rest the calls still to be made after it.                                 *)

Step(pc, call, rest) == [pc |-> pc, call |-> call, rest |-> rest]
Finally == Step("finally", <<>>, <<>>)
Single(call) == IF call = <<>> THEN Finally ELSE Step("single", call, <<>>)
InOrder(cs) == IF cs = <<>> THEN Finally ELSE Step("seq", <<Head(cs)>>, Tail(cs))

\* second stage of _progressive_light_sync (lines 657-679)
light_color_step(target, validated_attrs) ==
    IF color_attrs(validated_attrs) # NoAttrs
    THEN Step("col", <<Call(target, "light", "turn_on", color_attrs(validated_attrs))>>, <<>>)
    ELSE Finally

\* first stage of _progressive_light_sync (lines 642-655)
progressive_light_sync(target, validated_attrs) ==
    IF "brightness" \in DOMAIN validated_attrs
    THEN Step("bri", <<Call(target, "light", "turn_on",
                            Restrict(validated_attrs, {"brightness"}))>>, <<>>)
    ELSE light_color_step(target, validated_attrs)

sync_light_attributes(source_state, target) ==
    LET validated_attrs == validate_light_attributes(source_state.attributes)
    IN  IF validated_attrs = NoAttrs
        THEN Step("plain", <<Call(target, "light", "turn_on", NoAttrs)>>, <<>>)
        ELSE progressive_light_sync(target, validated_attrs)

\* float() on the state tokens of numeric entities: <<value>>, or <<>> when it
\* raises ValueError
float(s) ==
    CASE s \in {"0", "0.0"} -> <<0>>
      [] s \in {"50", "50.0"} -> <<50>>
      [] s \in {"100", "100.0"} -> <<100>>
      [] OTHER -> <<>>

Kelvin(color_temp) == 1000000 \div color_temp

\* a variant that mirrors every domain as on or off
perfect_sync_generic(source_state, target) ==
    Single(<<Call(target, DomainOf(source_state.entity_id), OnOff(source_state), NoAttrs)>>)

perfect_sync(source_state, target) ==
    LET domain == DomainOf(source_state.entity_id)
        attrs == source_state.attributes
        s == source_state.state
    IN  CASE domain = "light" ->
               IF s = "on" THEN sync_light_attributes(source_state, target)
               ELSE Single(<<Call(target, "light", "turn_off", NoAttrs)>>)
          [] domain = "switch" ->
               Single(<<Call(target, "switch", OnOff(source_state), NoAttrs)>>)
          [] domain = "cover" -> Single(cover_action(source_state, target))
          [] domain = "fan" ->
               IF s = "on"
               THEN Single(<<Call(target, "fan", "turn_on",
                        Restrict(attrs, {"speed", "percentage", "preset_mode", "oscillating"}))>>)
               ELSE Single(<<Call(target, "fan", "turn_off", NoAttrs)>>)
          [] domain = "climate" ->
               LET data == Restrict(attrs, {"temperature", "target_temp_high", "target_temp_low",
                                            "hvac_mode", "fan_mode", "preset_mode"})
               IN  InOrder((IF "hvac_mode" \in DOMAIN data
                            THEN <<Call(target, "climate", "set_hvac_mode", data)>> ELSE <<>>)
                        \o (IF "temperature" \in DOMAIN data
                            THEN <<Call(target, "climate", "set_temperature", data)>> ELSE <<>>))
          [] domain = "humidifier" ->
               IF s = "on"
               THEN Single(<<Call(target, "humidifier", "turn_on", Restrict(attrs, {"humidity", "mode"}))>>)
               ELSE Single(<<Call(target, "humidifier", "turn_off", NoAttrs)>>)
          [] domain = "water_heater" ->
               LET data == Restrict(attrs, {"temperature", "operation_mode"})
               IN  InOrder((IF "temperature" \in DOMAIN data
                            THEN <<Call(target, "water_heater", "set_temperature", data)>> ELSE <<>>)
                        \o (IF "operation_mode" \in DOMAIN data
                            THEN <<Call(target, "water_heater", "set_operation_mode", data)>> ELSE <<>>))
          [] domain = "vacuum" ->
               Single(IF s = "cleaning" THEN <<Call(target, "vacuum", "start", NoAttrs)>>
                      ELSE IF s = "docked" THEN <<Call(target, "vacuum", "return_to_base", NoAttrs)>>
                      ELSE IF s = "paused" THEN <<Call(target, "vacuum", "pause", NoAttrs)>>
                      ELSE <<>>)
          [] domain = "media_player" ->
               InOrder((IF s = "playing" THEN <<Call(target, "media_player", "media_play", NoAttrs)>>
                        ELSE IF s = "paused" THEN <<Call(target, "media_player", "media_pause", NoAttrs)>>
                        ELSE IF s = "off" THEN <<Call(target, "media_player", "turn_off", NoAttrs)>>
                        ELSE <<>>)
                    \o (IF "volume_level" \in DOMAIN attrs
                        THEN <<Call(target, "media_player", "volume_set",
                                    Restrict(attrs, {"volume_level"}))>> ELSE <<>>))
          [] domain \in {"scene", "script"} ->
               Single(<<Call(target, domain, "turn_on", NoAttrs)>>)
          [] domain = "input_boolean" ->
               Single(<<Call(target, "input_boolean", OnOff(source_state), NoAttrs)>>)
          [] domain = "input_select" ->
               Single(<<Call(target, "input_select", "select_option", ("option" :> s))>>)
          [] domain = "input_number" ->
               \* float(source_state.state) raises on a state that is no number
               Single(IF float(s) = <<>> THEN <<>>
                      ELSE <<Call(target, "input_number", "set_value", ("value" :> float(s)[1]))>>)
          [] domain = "input_text" ->
               Single(<<Call(target, "input_text", "set_value", ("value" :> s))>>)
          [] OTHER -> Finally

basic_sync(source_state, target) ==
    LET target_domain == DomainOf(target)
        on == is_on(source_state)
        target_attrs == store[target].attributes
    IN  CASE target_domain \in {"light", "switch", "fan", "humidifier", "input_boolean"} ->
               Single(<<Call(target, target_domain, IF on THEN "turn_on" ELSE "turn_off", NoAttrs)>>)
          [] target_domain = "cover" ->
               Single(<<Call(target, "cover", IF on THEN "open_cover" ELSE "close_cover", NoAttrs)>>)
          [] target_domain = "climate" ->
               Single(<<Call(target, "climate", "set_hvac_mode",
                             ("hvac_mode" :> (IF on THEN "heat" ELSE "off")))>>)
          [] target_domain = "water_heater" ->
               Single(<<Call(target, "water_heater", "set_operation_mode",
                             ("operation_mode" :> (IF on THEN "eco" ELSE "off")))>>)
          [] target_domain = "vacuum" ->
               Single(<<Call(target, "vacuum", IF on THEN "start" ELSE "return_to_base", NoAttrs)>>)
          [] target_domain = "media_player" ->
               Single(<<Call(target, "media_player", IF on THEN "media_play" ELSE "media_pause", NoAttrs)>>)
          [] target_domain \in {"scene", "script"} ->
               Single(IF on THEN <<Call(target, target_domain, "turn_on", NoAttrs)>> ELSE <<>>)
          [] target_domain = "input_select" ->
               Single(IF "options" \in DOMAIN target_attrs /\ target_attrs["options"] # <<>>
                      THEN <<Call(target, "input_select", "select_option",
                                  ("option" :> (IF on THEN Head(target_attrs["options"])
                                                ELSE target_attrs["options"][Len(target_attrs["options"])])))>>
                      ELSE <<>>)
          [] target_domain = "input_number" ->
               Single(<<Call(target, "input_number", "set_value",
                             ("value" :> (IF on
                                          THEN (IF "max" \in DOMAIN target_attrs THEN target_attrs["max"] ELSE 100)
                                          ELSE (IF "min" \in DOMAIN target_attrs THEN target_attrs["min"] ELSE 0))))>>)
          [] OTHER -> Finally

\* a variant without the look-up of the target
sync_to_entity_unchecked(source_state, target) ==
    IF config.sync_mode = "perfect" /\ DomainOf(source_state.entity_id) = DomainOf(target)
    THEN perfect_sync(source_state, target)
    ELSE basic_sync(source_state, target)

\* _sync_to_entity from its entry to its first suspension point
sync_to_entity(source_state, target) ==
    IF store[target] = None THEN Finally
    ELSE IF config.sync_mode = "perfect"
         THEN IF DomainOf(source_state.entity_id) = DomainOf(target)
              THEN perfect_sync(source_state, target)
              ELSE basic_sync(source_state, target)
    ELSE basic_sync(source_state, target)

\* where a suspended activation goes when the awaited call returns (ok) or
\* raises (~ok), or the awaited sleep ends
resume_sync(p) ==
    LET validated_attrs == validate_light_attributes(p.source.attributes)
        ct(key, value) == <<Call(p.target, "light", "turn_on", (key :> value))>>
    IN  CASE p.pc = "bri" ->
               IF p.ok THEN Step("bri_sleep", <<>>, <<>>)
               ELSE light_color_step(p.target, validated_attrs)
          [] p.pc = "bri_sleep" -> light_color_step(p.target, validated_attrs)
          [] p.pc = "col" ->
               IF ~p.ok /\ "color_temp" \in DOMAIN validated_attrs
               THEN Step("ct1", ct("color_temp", validated_attrs["color_temp"]), <<>>)
               ELSE Finally
          [] p.pc = "ct1" ->
               IF p.ok THEN Finally
               ELSE Step("ct2", ct("kelvin", Kelvin(validated_attrs["color_temp"])), <<>>)
          [] p.pc = "ct2" ->
               IF p.ok THEN Finally
               ELSE Step("ct3", ct("color_temp_kelvin", Kelvin(validated_attrs["color_temp"])), <<>>)
          [] p.pc = "plain" ->
               IF p.ok THEN Finally
               ELSE Step("recover", <<Call(p.target, "light", "turn_on", NoAttrs)>>, <<>>)
          [] p.pc = "seq" -> IF p.ok THEN InOrder(p.rest) ELSE Finally
          [] OTHER -> Finally

----------------------------------------------------------------------------
(* Loop guard *)

CacheKey(entity_id, state) == <<entity_id, state.state>>

duplicate_attrs(domain) ==
    IF domain \in {"light", "fan", "climate", "cover"} THEN important_attrs(domain) ELSE <<>>

\* f"{state.state}_{hash(tuple(...))}", the hash taken as injective
state_fingerprint(state) ==
    LET attrs == duplicate_attrs(DomainOf(state.entity_id))
    IN  <<state.state, [i \in 1..Len(attrs) |-> Get(state.attributes, attrs[i])]>>

is_duplicate_state(entity_id, state) ==
    /\ CacheKey(entity_id, state) \in DOMAIN state_cache
    /\ state_cache[CacheKey(entity_id, state)].fingerprint = state_fingerprint(state)
    /\ state_cache[CacheKey(entity_id, state)].age < DuplicateWindowMs

\* the cache after _is_duplicate_state returned False (the cache never holds
\* more than four keys here, so _clean_state_cache never has anything to drop)
cache_updated(entity_id, state) ==
    (CacheKey(entity_id, state) :> [fingerprint |-> state_fingerprint(state), age |-> 0])
        @@ state_cache

should_batch_sync ==
    Cardinality({k \in DOMAIN last_sync_times : last_sync_times[k] < DuplicateWindowMs}) > 5

\* self._sync_cooldown * 1.5 when batching
effective_cooldown == IF should_batch_sync THEN (SyncCooldownMs * 3) \div 2 ELSE SyncCooldownMs

cooldown_active(sync_key) ==
    /\ sync_key \in DOMAIN last_sync_times
    /\ last_sync_times[sync_key] < effective_cooldown

\* a variant that leaves the recording to the end of the sync executor
record_sync_time_deferred(branch, sync_key) == last_sync_times

\* a variant that records the time of a suppressed event as well
record_sync_time_always(branch, sync_key) ==
    IF branch \in {"cooldown", "sync"} THEN (sync_key :> 0) @@ last_sync_times
    ELSE last_sync_times

\* the timestamps after a callback: only one that passed the cooldown check
\* records the time of its direction, and it does so before it awaits
record_sync_time(branch, sync_key) ==
    IF branch = "sync" THEN (sync_key :> 0) @@ last_sync_times ELSE last_sync_times

\* a variant whose callback drops the subscriptions of an unavailable entity
handler_subscriptions_dropping(new_state) ==
    IF new_state # None /\ new_state.state = "unavailable" THEN <<>> ELSE listeners

\* the subscriptions after a callback: no branch of the handlers touches them
handler_subscriptions(new_state) == listeners

\* a variant whose callbacks do not look at the sync-in-progress flag
handle_entity_change_unguarded(source, old_state, new_state) ==
    IF new_state = None \/ old_state = None THEN "incomplete"
    ELSE IF is_progressive_device(new_state.entity_id)
            /\ has_progressive_change(old_state, new_state) THEN "progressive"
    ELSE IF ~is_significant_change(new_state, old_state) THEN "insignificant"
    ELSE IF is_duplicate_state(source, new_state) THEN "duplicate"
    ELSE IF cooldown_active(SyncKey(source, Other(source))) THEN "cooldown"
    ELSE "sync"

\* _handle_entity1_change / _handle_entity2_change: the branch a callback takes
handle_entity_change(source, old_state, new_state) ==
    IF sync_in_progress THEN "busy"
    ELSE IF new_state = None \/ old_state = None THEN "incomplete"
    ELSE IF is_progressive_device(new_state.entity_id)
            /\ has_progressive_change(old_state, new_state) THEN "progressive"
    ELSE IF ~is_significant_change(new_state, old_state) THEN "insignificant"
    ELSE IF is_duplicate_state(source, new_state) THEN "duplicate"
    ELSE IF cooldown_active(SyncKey(source, Other(source))) THEN "cooldown"
    ELSE "sync"

----------------------------------------------------------------------------
(* Master/slave arbitrator *)

Task(key, source_state, target, st) ==
    [key |-> key, source |-> source_state, target |-> target, st |-> st, ok |-> TRUE]

InFlight(t) == t.st \in {"pending", "calling"}

\* a finished task stays in its slot; nothing reads its arguments any more
Finished(t) == [t EXCEPT !.st = "done", !.source = None, !.ok = TRUE]

\* the tasks left once those of the slot are cancelled and the slot cleared.
\* task.cancel() on an unfinished task ends it: CancelledError is thrown into
\* _immediate_sync at its await (or before its first step), and no handler of
\* _immediate_sync catches it, so the task runs no further code.
cancel_and_clear(sync_key) == SelectSeq(tasks, LAMBDA t : t.key # sync_key)

\* a variant that queues the new task behind the ones of the slot
handle_progressive_sync_queueing(source, target, new_state) ==
    Append(tasks, Task(SyncKey(source, target), new_state, target, "pending"))

\* _handle_progressive_sync up to its await: the tasks afterwards
handle_progressive_sync(source, target, new_state) ==
    Append(cancel_and_clear(SyncKey(source, target)),
           Task(SyncKey(source, target), new_state, target, "pending"))

----------------------------------------------------------------------------
(* The platform: state store, event bus, service registry *)

\* a state_changed event; origin tells who caused the change (its context),
\* linked whether the link was enabled when the change happened
Event(entity_id, old_state, new_state, origin) ==
    [entity_id |-> entity_id, old_state |-> old_state, new_state |-> new_state,
     origin |-> origin, linked |-> enabled]

\* one callback per subscription that tracks the entity
Notify(entity_id, old_state, new_state, origin) ==
    LET ls == SelectSeq(listeners, LAMBDA l : l = entity_id)
    IN  [i \in 1..Len(ls) |-> Event(entity_id, old_state, new_state, origin)]

\* the state of an entity after its integration served the call
\* str(value) of the floats float(s) yields: the state a number input takes
str(value) ==
    CASE value = 0 -> "0.0"
      [] value = 50 -> "50.0"
      [] value = 100 -> "100.0"
      [] OTHER -> "unknown"

apply_service(st, c) ==
    CASE c.service = "turn_on" ->
             [st EXCEPT !.state = "on", !.attributes = Update(st.attributes, c.data)]
      [] c.service = "turn_off" -> [st EXCEPT !.state = "off"]
      [] c.service = "open_cover" ->
             [st EXCEPT !.state = "open", !.attributes = Update(st.attributes, ("position" :> 100))]
      [] c.service = "close_cover" ->
             [st EXCEPT !.state = "closed", !.attributes = Update(st.attributes, ("position" :> 0))]
      [] c.service = "set_cover_position" ->
             [st EXCEPT !.state = IF c.data["position"] = 0 THEN "closed" ELSE "open",
                        !.attributes = Update(st.attributes, c.data)]
      [] c.service = "set_value" -> [st EXCEPT !.state = str(c.data["value"])]
      [] OTHER -> st

Outcomes == IF env.faulty THEN {TRUE, FALSE} ELSE {TRUE}

\* a record of the history: the call, the state it mirrors, whether it was
\* accepted, and how long ago it was invoked
Sent(source_state, c, ok) == [call |-> c, source |-> source_state, ok |-> ok, age |-> 0]

\* the history keeps the first calls, as many as the scenario asks for
Record(source_state, c, ok) ==
    IF Len(sent) < env.max_sent THEN Append(sent, Sent(source_state, c, ok)) ELSE sent

\* await hass.services.async_call(...): the call is invoked; it is accepted
\* (ok) or raises
Invoke(source_state, call, ok) ==
    /\ sent' = IF call = <<>> THEN sent ELSE Record(source_state, call[1], ok)
    /\ calls' = IF call # <<>> /\ ok THEN Append(calls, call[1]) ELSE calls
    /\ ext' = IF call # <<>> /\ source_state = store[source_state.entity_id]
              THEN [ext EXCEPT !.mirrored[source_state.entity_id] = TRUE]
              ELSE ext

\* an activation of _sync_to_entity; manual tells whether a debug manual sync
\* awaits it
Proc(source_state, target, step, ok) ==
    [source |-> source_state, target |-> target, pc |-> step.pc, rest |-> step.rest,
     ok |-> (step.call = <<>> \/ ok), manual |-> FALSE]

RemoveAt(s, i) == [j \in 1..(Len(s) - 1) |-> IF j < i THEN s[j] ELSE s[j + 1]]

----------------------------------------------------------------------------
(* Actions *)

\* SimpleSyncCoordinator.async_setup: the subscriptions afterwards, for the
\* value self.enabled has when it runs; registered tells for each of the two
\* calls of async_track_state_change_event whether it returns a handle (it
\* raises otherwise, and async_setup logs the error and returns)
setup_listeners(is_enabled, registered) ==
    IF is_enabled /\ store[entity1_id] # None /\ store[entity2_id] # None
    THEN IF ~registered[1] THEN listeners
         ELSE IF ~registered[2] THEN Append(listeners, entity1_id)
         ELSE listeners \o <<entity1_id, entity2_id>>
    ELSE listeners

\* async_setup as its callers await it: the constructor or the control switch
\* has assigned self.enabled just before
async_setup(registered) == setup_listeners(enabled', registered)

\* the services async_setup_entry registers
ServiceNames ==
    {"manual_sync", "toggle_sync", "debug_sync_entity1_to_entity2",
     "debug_sync_entity2_to_entity1", "get_sync_status"}

\* a variant that registers its handlers whether or not the service exists
register_services_anew(entry) == [n \in ServiceNames |-> entry]

\* async_setup_entry, the registrations: each service the domain does not
\* have yet gets the handler this call defines
register_services(entry) ==
    [n \in ServiceNames |-> IF n \in DOMAIN services THEN services[n] ELSE entry]

\* a service request as the history keeps it: found tells whether the source
\* entity resolved (the value a manual sync returns once its activation has
\* ended), guarded whether the guards of a change callback would have
\* stopped the same mirror
Request(kind, source, found, guarded) ==
    [kind |-> kind, source |-> source, found |-> found, guarded |-> guarded]

NoRequest == Request("", NoId, FALSE, FALSE)

\* async_setup_entry: it returns False when an entity has no state, and Home
\* Assistant does not call it again for an entry that failed this way
SetupEntry ==
    /\ ~loaded
    /\ ~setup_error
    /\ procs = <<>> /\ events = <<>> /\ \A i \in 1..Len(tasks) : ~InFlight(tasks[i])
    /\ IF store[entity1_id] # None /\ store[entity2_id] # None
       THEN /\ enabled' = TRUE
            /\ sync_in_progress' = FALSE
            /\ last_sync_times' = <<>>
            /\ state_cache' = <<>>
            /\ tasks' = <<>>
            /\ last_master_entity' = NoId
            /\ syncing' = "unset"
            /\ action_states' = <<>>
            /\ \E registered \in env.registrations : listeners' = async_setup(registered)
            /\ loaded' = TRUE
            /\ services' = register_services(0)
            /\ UNCHANGED setup_error
       ELSE /\ setup_error' = TRUE
            /\ UNCHANGED <<listeners, loaded, services, enabled, sync_in_progress,
                           last_sync_times, state_cache, tasks, last_master_entity,
                           syncing, action_states>>
    /\ UNCHANGED <<other_entries, state_history, req, config, env, store, procs, events,
                   calls, sent, ext>>

\* async_unload_entry of the link's entry: the coordinator releases its
\* handles and leaves hass.data; the services go with the last entry.
\* Callbacks already scheduled, activations of _sync_to_entity and mirror
\* tasks are left as they are.
UnloadEntry ==
    /\ loaded
    /\ listeners' = <<>>
    /\ loaded' = FALSE
    /\ services' = IF other_entries = {} THEN <<>> ELSE services
    /\ UNCHANGED <<other_entries, action_states, state_history, setup_error, syncing, req,
                   config, env, store, enabled, sync_in_progress, last_sync_times,
                   state_cache, tasks, last_master_entity, procs, events, calls, sent, ext>>

\* async_setup_entry of another entry of the integration whose entities
\* resolve (it changes nothing when they do not)
SetupOtherEntry(entry) ==
    /\ entry \notin other_entries
    /\ other_entries' = other_entries \cup {entry}
    /\ services' = register_services(entry)
    /\ UNCHANGED <<action_states, state_history, setup_error, syncing, req, config, env,
                   store, loaded, calls, sent, ext, events>>
    /\ UNCHANGED coordVars

\* async_unload_entry of another entry
UnloadOtherEntry(entry) ==
    /\ entry \in other_entries
    /\ other_entries' = other_entries \ {entry}
    /\ services' = IF ~loaded /\ other_entries' = {} THEN <<>> ELSE services
    /\ UNCHANGED <<action_states, state_history, setup_error, syncing, req, config, env,
                   store, loaded, calls, sent, ext, events>>
    /\ UNCHANGED coordVars

\* somebody other than the coordinator changes an entity (a change made before
\* the link is set up only alters the states the link starts from)
ExternalChange(new_state) ==
    LET e == new_state.entity_id
    IN  /\ loaded
        /\ ext.n < env.max_external
        /\ store[e] # None
        /\ new_state # store[e]
        /\ store' = [store EXCEPT ![e] = new_state]
        /\ events' = events \o Notify(e, store[e], new_state, "external")
        /\ ext' = [n |-> ext.n + 1, last |-> [ext.last EXCEPT ![e] = new_state],
                   mirrored |-> [ext.mirrored EXCEPT ![e] = FALSE]]
        /\ UNCHANGED <<services, other_entries, action_states, state_history, setup_error, syncing, req, config, env, loaded, calls, sent>>
        /\ UNCHANGED coordVars

\* the event loop runs the oldest scheduled callback up to its first suspension
Deliver(ok) ==
    /\ events # <<>>
    /\ LET ev == Head(events)
           source == ev.entity_id
           target == Other(source)
           branch == handle_entity_change(source, ev.old_state, ev.new_state)
           step == sync_to_entity(ev.new_state, target)
       IN  /\ events' = Tail(events)
           /\ state_cache' = IF branch \in {"cooldown", "sync"}
                             THEN cache_updated(source, ev.new_state) ELSE state_cache
           /\ last_sync_times' = record_sync_time(branch, SyncKey(source, target))
           /\ tasks' = IF branch = "progressive"
                       THEN handle_progressive_sync(source, target, ev.new_state) ELSE tasks
           /\ IF branch = "sync"
              THEN /\ sync_in_progress' = TRUE
                   /\ procs' = Append(procs, Proc(ev.new_state, target, step, ok))
                   /\ Invoke(ev.new_state, step.call, ok)
              ELSE UNCHANGED <<sync_in_progress, procs, sent, calls, ext>>
           /\ listeners' = handler_subscriptions(ev.new_state)
    /\ UNCHANGED <<services, other_entries, action_states, state_history, setup_error, syncing, req, config, env, store, loaded, enabled, last_master_entity>>

\* an activation of _sync_to_entity resumes from a call or a sleep in its try block
Resume(i, ok) ==
    /\ i \in 1..Len(procs)
    /\ procs[i].pc # "finally"
    /\ LET step == resume_sync(procs[i])
       IN  /\ procs' = [procs EXCEPT ![i] = [Proc(procs[i].source, procs[i].target, step, ok)
                                                 EXCEPT !.manual = procs[i].manual]]
           /\ Invoke(procs[i].source, step.call, ok)
    /\ UNCHANGED <<services, other_entries, action_states, state_history, setup_error, syncing, req, config, env, store, loaded, enabled, listeners, sync_in_progress,
                   last_sync_times, state_cache, tasks, last_master_entity, events>>

\* a variant that leaves the flag set when a call of the activation raised
flag_kept_on_failure(p) == \E j \in 1..Len(sent) : sent[j].source = p.source /\ ~sent[j].ok

\* the flag after the finally block of _sync_to_entity, whatever was caught
flag_after_finally(p) == FALSE

\* the sleep of the finally block ends: the flag is reset
Finish(i) ==
    /\ i \in 1..Len(procs)
    /\ procs[i].pc = "finally"
    /\ sync_in_progress' = flag_after_finally(procs[i])
    /\ syncing' = IF procs[i].manual THEN "false" ELSE syncing
    /\ procs' = RemoveAt(procs, i)
    /\ UNCHANGED <<services, other_entries, action_states, state_history, setup_error, req, config, env, store, loaded, enabled, listeners, last_sync_times,
                   state_cache, tasks, last_master_entity, events, calls, sent, ext>>

\* a mirror task gets its first turn on the event loop and runs _immediate_sync
TaskStart(i, ok) ==
    /\ i \in 1..Len(tasks)
    /\ tasks[i].st = "pending"
    /\ LET call == immediate_sync(tasks[i].source, tasks[i].target)
       IN  /\ tasks' = [tasks EXCEPT ![i] = IF call = <<>> THEN Finished(tasks[i])
                                              ELSE [tasks[i] EXCEPT !.st = "calling", !.ok = ok]]
           /\ last_master_entity' = IF call = <<>> THEN tasks[i].key[1] ELSE last_master_entity
           /\ Invoke(tasks[i].source, call, ok)
    /\ UNCHANGED <<services, other_entries, action_states, state_history, setup_error, syncing, req, config, env, store, loaded, enabled, listeners, sync_in_progress,
                   last_sync_times, state_cache, procs, events>>

\* the call of a mirror task returns or raises; the task ends and the
\* callback awaiting it records the master
TaskReturn(i) ==
    /\ i \in 1..Len(tasks)
    /\ tasks[i].st = "calling"
    /\ tasks' = [tasks EXCEPT ![i] = Finished(tasks[i])]
    /\ last_master_entity' = tasks[i].key[1]
    /\ UNCHANGED <<services, other_entries, action_states, state_history, setup_error, syncing, req, config, env, store, loaded, enabled, listeners, sync_in_progress,
                   last_sync_times, state_cache, procs, events, calls, sent, ext>>

\* the integration that owns the target serves the oldest accepted call; an
\* entity that is gone or unavailable is passed over
ExecutorApply ==
    /\ calls # <<>>
    /\ LET c == Head(calls)
           old_state == store[c.target]
           new_state == apply_service(old_state, c)
       IN  /\ calls' = Tail(calls)
           /\ IF old_state = None \/ old_state.state = "unavailable" \/ new_state = old_state
              THEN UNCHANGED <<store, events>>
              ELSE /\ store' = [store EXCEPT ![c.target] = new_state]
                   /\ events' = events \o Notify(c.target, old_state, new_state, "executor")
    /\ UNCHANGED <<services, other_entries, action_states, state_history, setup_error, syncing, req, config, env, loaded, sent, ext>>
    /\ UNCHANGED coordVars

\* whether the coordinator object has the attribute: __init__ assigns neither
\* _syncing (first assigned by a debug manual sync) nor _last_sync_time (the
\* attribute it assigns is _last_sync_times)
has_attribute(name) ==
    CASE name = "_syncing" -> syncing # "unset"
      [] name = "_last_sync_time" -> FALSE
      [] OTHER -> TRUE

\* get_sync_status: the record it returns; a read of a missing attribute raises
\* AttributeError inside its try block and the except clause returns None
get_sync_status ==
    LET summary(e) == [id |-> e, exists |-> store[e] # None,
                       state |-> IF store[e] # None THEN <<store[e].state>> ELSE <<>>]
    IN  IF has_attribute("_syncing") /\ has_attribute("_last_sync_time")
        THEN [returned |-> TRUE, enabled |-> enabled, syncing |-> syncing,
              listeners_count |-> Len(listeners),
              entity1 |-> summary(entity1_id), entity2 |-> summary(entity2_id)]
        ELSE [returned |-> FALSE]

\* an entity that had no state gets one; its subscribers are told
ExternalAdd(new_state) ==
    LET e == new_state.entity_id
    IN  /\ ext.n < MaxExternal
        /\ store[e] = None
        /\ store' = [store EXCEPT ![e] = new_state]
        /\ events' = events \o Notify(e, None, new_state, "external")
        /\ ext' = [n |-> ext.n + 1, last |-> [ext.last EXCEPT ![e] = new_state],
                   mirrored |-> [ext.mirrored EXCEPT ![e] = FALSE]]
        /\ UNCHANGED <<services, other_entries, action_states, state_history, setup_error, syncing, req, config, env, loaded, calls, sent>>
        /\ UNCHANGED coordVars

\* an entity is removed from the state store; its subscribers are told
ExternalRemove(e) ==
    /\ loaded
    /\ store[e] # None
    /\ store' = [store EXCEPT ![e] = None]
    /\ events' = events \o Notify(e, store[e], None, "external")
    /\ UNCHANGED <<services, other_entries, action_states, state_history, setup_error, syncing, req, config, env, loaded, calls, sent, ext>>
    /\ UNCHANGED coordVars

\* a variant that honours the cooldown of the direction
manual_sync_cooled(source) ==
    IF cooldown_active(SyncKey(source, Other(source))) THEN Finally
    ELSE sync_to_entity(store[source], Other(source))

\* what a manual sync runs for its direction: _sync_to_entity on the current
\* state of the source, with no guard in front of it
manual_sync(source) == sync_to_entity(store[source], Other(source))

\* services manual_sync and debug_sync_*: manual_sync_entity1_to_entity2 /
\* manual_sync_entity2_to_entity1, up to the first suspension; only the debug
\* services go through the coordinator's methods, which assign self._syncing
ManualSync(source, ok) ==
    /\ loaded
    /\ req.n < MaxOps
    /\ req' = [n |-> req.n + 1,
               last |-> Request("manual_sync", source, store[source] # None,
                                \/ cooldown_active(SyncKey(source, Other(source)))
                                \/ store[source] # None /\ is_duplicate_state(source, store[source]))]
    /\ IF store[source] = None
       THEN UNCHANGED <<sync_in_progress, procs, sent, calls, ext, syncing>>
       ELSE /\ sync_in_progress' = TRUE
            /\ \E debug \in BOOLEAN :
                  /\ syncing' = IF debug THEN "true" ELSE syncing
                  /\ procs' = Append(procs, [Proc(store[source], Other(source),
                                                  manual_sync(source), ok)
                                             EXCEPT !.manual = debug])
            /\ Invoke(store[source], manual_sync(source).call, ok)
    /\ UNCHANGED <<services, other_entries, action_states, state_history, setup_error, config, env, store, loaded, enabled, listeners, last_sync_times,
                   state_cache, tasks, last_master_entity, events>>

\* service toggle_sync
ToggleSync ==
    /\ loaded
    /\ req.n < MaxOps
    /\ req' = [n |-> req.n + 1, last |-> Request("toggle_sync", NoId, TRUE, FALSE)]
    /\ enabled' = ~enabled
    /\ UNCHANGED <<services, other_entries, action_states, state_history, setup_error, syncing, config, env, store, loaded, listeners, sync_in_progress, last_sync_times,
                   state_cache, tasks, last_master_entity, procs, events, calls, sent, ext>>

\* TwoWaySyncSwitch.async_turn_on
SwitchTurnOn ==
    /\ loaded
    /\ req.n < MaxOps
    /\ req' = [n |-> req.n + 1, last |-> Request("turn_on", NoId, TRUE, FALSE)]
    /\ enabled' = TRUE
    /\ \E registered \in env.registrations : listeners' = async_setup(registered)
    /\ UNCHANGED <<services, other_entries, action_states, state_history, setup_error, syncing, config, env, store, loaded, sync_in_progress, last_sync_times,
                   state_cache, tasks, last_master_entity, procs, events, calls, sent, ext>>

\* TwoWaySyncSwitch.async_turn_off
SwitchTurnOff ==
    /\ loaded
    /\ req.n < MaxOps
    /\ req' = [n |-> req.n + 1, last |-> Request("turn_off", NoId, TRUE, FALSE)]
    /\ enabled' = FALSE
    /\ listeners' = <<>>
    /\ UNCHANGED <<services, other_entries, action_states, state_history, setup_error, syncing, config, env, store, loaded, sync_in_progress, last_sync_times,
                   state_cache, tasks, last_master_entity, procs, events, calls, sent, ext>>

Older(age) == Min(age + TickMs, AgeCap)

\* time passes
Tick ==
    /\ \/ \E k \in DOMAIN last_sync_times : last_sync_times[k] < AgeCap
       \/ \E k \in DOMAIN state_cache : state_cache[k].age < AgeCap
       \/ \E i \in 1..Len(sent) : sent[i].age < AgeCap
    /\ last_sync_times' = [k \in DOMAIN last_sync_times |-> Older(last_sync_times[k])]
    /\ state_cache' = [k \in DOMAIN state_cache |->
                          [state_cache[k] EXCEPT !.age = Older(state_cache[k].age)]]
    /\ sent' = [i \in 1..Len(sent) |-> [sent[i] EXCEPT !.age = Older(sent[i].age)]]
    /\ UNCHANGED <<services, other_entries, action_states, state_history, setup_error, syncing, req, config, env, store, loaded, enabled, listeners, sync_in_progress,
                   tasks, last_master_entity, procs, events, calls, ext>>

\* time passes by less than the cooldown
ShortTick ==
    /\ \/ \E k \in DOMAIN last_sync_times : last_sync_times[k] < AgeCap
       \/ \E k \in DOMAIN state_cache : state_cache[k].age < AgeCap
       \/ \E i \in 1..Len(sent) : sent[i].age < AgeCap
    /\ LET later(age) == Min(age + ShortTickMs, AgeCap)
       IN  /\ last_sync_times' = [k \in DOMAIN last_sync_times |-> later(last_sync_times[k])]
           /\ state_cache' = [k \in DOMAIN state_cache |->
                                 [state_cache[k] EXCEPT !.age = later(state_cache[k].age)]]
           /\ sent' = [i \in 1..Len(sent) |-> [sent[i] EXCEPT !.age = later(sent[i].age)]]
    /\ UNCHANGED <<services, other_entries, action_states, state_history, setup_error, syncing, req, config, env, store, loaded, enabled,
                   listeners, sync_in_progress, tasks, last_master_entity, procs, events, calls,
                   ext>>

----------------------------------------------------------------------------
(* Action states of progressive devices *)

\* config_entry.options / data "action_completion_timeout", default 3.0 s
ActionTimeoutMs == 3000

\* _get_action_state
get_action_state(entity_id) ==
    IF entity_id \in DOMAIN action_states THEN action_states[entity_id].state ELSE "idle"

\* _is_action_in_progress
is_action_in_progress(entity_id) == get_action_state(entity_id) \in {"starting", "in_progress"}

\* _is_action_timeout: a predicate; it changes nothing
is_action_timeout(entity_id) ==
    /\ entity_id \in DOMAIN action_states
    /\ action_states[entity_id].age > ActionTimeoutMs

\* _set_action_state: the table afterwards; start_time is set to now
\* (target_values, which nothing reads, is left out)
set_action_state(entity_id, state, master_entity) ==
    (entity_id :> [state |-> state, age |-> 0, master_entity |-> master_entity])
        @@ action_states

ActionFrame ==
    /\ UNCHANGED <<services, other_entries, state_history, setup_error, syncing, req, config, env, store, loaded, calls,
                   sent, ext, events>>
    /\ UNCHANGED coordVars

\* _start_progressive_action
StartProgressiveAction(entity_id, master_entity) ==
    /\ store[entity_id] # None
    /\ action_states' = set_action_state(entity_id, "starting", master_entity)
    /\ ActionFrame

\* _update_action_progress: starting becomes in_progress, anything else stays
UpdateActionProgress(entity_id) ==
    /\ entity_id \in DOMAIN action_states
    /\ action_states[entity_id].state = "starting"
    /\ action_states' = set_action_state(entity_id, "in_progress",
                                         action_states[entity_id].master_entity)
    /\ ActionFrame

\* _clear_action_state
ClearActionState(entity_id) ==
    /\ entity_id \in DOMAIN action_states
    /\ action_states' = [e \in DOMAIN action_states \ {entity_id} |-> action_states[e]]
    /\ ActionFrame

\* time passes for the action states
ActionTick ==
    /\ \E e \in DOMAIN action_states : action_states[e].age < ActionAgeCap
    /\ action_states' = [e \in DOMAIN action_states |->
                            [action_states[e] EXCEPT !.age = Min(@ + ActionTickMs, ActionAgeCap)]]
    /\ ActionFrame

----------------------------------------------------------------------------
(* Bounce detection (test_bounce_detection.py, MockTwoWaySync) *)

\* _record_state_change: the record is appended with the current time and
\* only the 10 newest are kept
RecordStateChange(state_obj) ==
    LET entity_id == state_obj.entity_id
        history == IF entity_id \in DOMAIN state_history THEN state_history[entity_id] ELSE <<>>
        appended == Append(history, [age |-> 0, state |-> state_obj.state,
                                     attributes |-> state_obj.attributes])
        kept == IF Len(appended) > 10
                THEN SubSeq(appended, Len(appended) - 9, Len(appended)) ELSE appended
    IN  /\ state_history' = (entity_id :> kept) @@ state_history
        /\ UNCHANGED <<services, other_entries, action_states, setup_error, syncing, req, config, env, store, loaded, calls, sent, ext,
                       events, procs>>
        /\ UNCHANGED coordVars

\* a variant that judges a light by its state flips alone
is_bouncing_by_state(entity_id) ==
    /\ entity_id \in DOMAIN state_history
    /\ LET recent_changes == SelectSeq(state_history[entity_id], LAMBDA h : h.age <= 5000)
       IN  /\ Len(recent_changes) >= 6
           /\ Cardinality({i \in 2..Len(recent_changes) :
                               recent_changes[i].state # recent_changes[i - 1].state}) >= 4

\* _is_bouncing_state
is_bouncing_state(entity_id) ==
    IF entity_id \notin DOMAIN state_history THEN FALSE
    ELSE IF Len(state_history[entity_id]) < 6 THEN FALSE
    ELSE LET recent_changes == SelectSeq(state_history[entity_id], LAMBDA h : h.age <= 5000)
             n == Len(recent_changes)
             get(attrs, k) == IF k \in DOMAIN attrs THEN attrs[k] ELSE 0
             state_changes ==
                 Cardinality({i \in 2..n : recent_changes[i].state # recent_changes[i - 1].state})
             changes(k, threshold) ==
                 Cardinality({i \in 2..n :
                     Abs(get(recent_changes[i - 1].attributes, k)
                         - get(recent_changes[i].attributes, k)) > threshold})
         IN  IF n < 6 THEN FALSE
             ELSE IF Cardinality({recent_changes[i].state : i \in 1..n}) < 2 THEN FALSE
             ELSE IF state_changes < 4 THEN FALSE
             ELSE IF DomainOf(entity_id) = "light"
                  THEN changes("brightness", 10) >= 3 \/ changes("color_temp", 20) >= 3
             ELSE TRUE

\* time.time() moves on by one step of the detector's clock
BounceTick ==
    /\ \E e \in DOMAIN state_history : \E i \in 1..Len(state_history[e]) :
           state_history[e][i].age < BounceTickMs
    /\ state_history' = [e \in DOMAIN state_history |->
                            [i \in 1..Len(state_history[e]) |->
                                [state_history[e][i] EXCEPT !.age = Min(@ + BounceTickMs, BounceTickMs)]]]
    /\ UNCHANGED <<services, other_entries, action_states, setup_error, syncing, req, config, env, store, loaded, calls, sent, ext,
                   events, procs>>
    /\ UNCHANGED coordVars

----------------------------------------------------------------------------
(* The coordinator after __init__, with both entities in the state store *)

InitLink(cfg, environment, states) ==
    /\ config = cfg
    /\ env = environment
    /\ store = states
    /\ loaded = FALSE
    /\ enabled = TRUE
    /\ listeners = <<>>
    /\ sync_in_progress = FALSE
    /\ last_sync_times = <<>>
    /\ state_cache = <<>>
    /\ tasks = <<>>
    /\ last_master_entity = NoId
    /\ procs = <<>>
    /\ events = <<>>
    /\ calls = <<>>
    /\ sent = <<>>
    /\ ext = [n |-> 0, last |-> [e \in DOMAIN states |-> None],
              mirrored |-> [e \in DOMAIN states |-> TRUE]]
    /\ req = [n |-> 0, last |-> NoRequest]
    /\ syncing = "unset"
    /\ setup_error = FALSE
    /\ state_history = <<>>
    /\ action_states = <<>>
    /\ services = <<>>
    /\ other_entries = {}

Config(e1, e2, mode) == [entity1 |-> e1, entity2 |-> e2, sync_mode |-> mode]
Env(inputs, faulty) ==
    [inputs |-> inputs, faulty |-> faulty, max_sent |-> MaxSent, max_external |-> MaxExternal,
     registrations |-> {<<TRUE, TRUE>>}]

(* Two dimmable lights, both on at brightness 100; brightness moves on both *)
LightA == Id("light", "a")
LightB == Id("light", "b")
Dimmed(id, b) == State(id, "on", ("brightness" :> b))
DimInputs == {Dimmed(LightA, 104), Dimmed(LightA, 105), Dimmed(LightB, 105)}

InitDim ==
    InitLink(Config(LightA, LightB, "perfect"), Env(DimInputs, FALSE),
             (LightA :> Dimmed(LightA, 100)) @@ (LightB :> Dimmed(LightB, 100)))

NextDim ==
    \/ SetupEntry
    \/ \E s \in env.inputs : ExternalChange(s)
    \/ \E ok \in Outcomes : Deliver(ok)
    \/ \E i \in 1..Len(tasks), ok \in Outcomes : TaskStart(i, ok)
    \/ \E i \in 1..Len(tasks) : TaskReturn(i)
    \/ ExecutorApply

Spec == InitDim /\ [][NextDim]_vars

(* The same link; its entry and other entries of the integration are set *)
(* up and unloaded                                                        *)
SpecUnload ==
    /\ InitDim
    /\ [][\/ NextDim
          \/ UnloadEntry
          \/ \E entry \in 1..MaxOtherEntries : SetupOtherEntry(entry)
          \/ \E entry \in 1..MaxOtherEntries : UnloadOtherEntry(entry)]_vars

\* every scheduled callback, task and accepted call gets its turn; nothing
\* obliges anybody to change an entity by hand
FairSpec ==
    /\ Spec
    /\ WF_vars(\E ok \in Outcomes : Deliver(ok))
    /\ WF_vars(\E i \in 1..Len(tasks), ok \in Outcomes : TaskStart(i, ok))
    /\ WF_vars(\E i \in 1..Len(tasks) : TaskReturn(i))
    /\ WF_vars(ExecutorApply)

(* Two switches, the first off; the first is switched by hand; time passes *)
SwitchA == Id("switch", "a")
SwitchB == Id("switch", "b")
SwitchInputs == {State(SwitchA, s, NoAttrs) : s \in {"on", "off"}}

InitSwitch ==
    \E s \in {"on", "off"} :
        InitLink(Config(SwitchA, SwitchB, "perfect"), Env(SwitchInputs, FALSE),
                 (SwitchA :> State(SwitchA, "off", NoAttrs)) @@ (SwitchB :> State(SwitchB, s, NoAttrs)))

NextSwitch ==
    \/ SetupEntry
    \/ \E s \in env.inputs : ExternalChange(s)
    \/ \E ok \in Outcomes : Deliver(ok)
    \/ \E i \in 1..Len(procs), ok \in Outcomes : Resume(i, ok)
    \/ \E i \in 1..Len(procs) : Finish(i)
    \/ ExecutorApply
    \/ Tick

SpecSwitch == InitSwitch /\ [][NextSwitch]_vars

\* every scheduled callback, suspended activation and accepted call gets its
\* turn and time passes; nothing obliges anybody to switch by hand
FairSwitch ==
    /\ SpecSwitch
    /\ WF_vars(\E ok \in Outcomes : Deliver(ok))
    /\ WF_vars(\E i \in 1..Len(procs), ok \in Outcomes : Resume(i, ok))
    /\ WF_vars(\E i \in 1..Len(procs) : Finish(i))
    /\ WF_vars(ExecutorApply)
    /\ WF_vars(Tick)

\* every step of the coordinator and of the platform, time standing still
NextLink ==
    \/ SetupEntry
    \/ \E s \in env.inputs : ExternalChange(s)
    \/ \E ok \in Outcomes : Deliver(ok)
    \/ \E i \in 1..Len(procs), ok \in Outcomes : Resume(i, ok)
    \/ \E i \in 1..Len(procs) : Finish(i)
    \/ \E i \in 1..Len(tasks), ok \in Outcomes : TaskStart(i, ok)
    \/ \E i \in 1..Len(tasks) : TaskReturn(i)
    \/ ExecutorApply

(* Two colour lights, both off; the first is turned on with brightness 180  *)
(* and hue-saturation (30, 80), with or without a colour temperature; while *)
(* off it may or may not keep its attributes; service calls may raise       *)
BriHs == ("brightness" :> 180) @@ ("hs_color" :> <<30, 80>>)
ColourAttrs == BriHs @@ ("color_temp" :> 300)
ColourInputs == {State(LightA, "on", BriHs), State(LightA, "on", ColourAttrs)}

InitColour ==
    \E a \in {NoAttrs, BriHs, ColourAttrs} :
        InitLink(Config(LightA, LightB, "perfect"), Env(ColourInputs, TRUE),
                 (LightA :> State(LightA, "off", a)) @@ (LightB :> State(LightB, "off", NoAttrs)))

SpecColour == InitColour /\ [][NextLink]_vars

(* Two covers, both closed; the first one is opened half way by hand *)
CoverA == Id("cover", "a")
CoverB == Id("cover", "b")
Cover(id, s, position) == State(id, s, ("position" :> position))
CoverInputs == {Cover(CoverA, "opening", 50), Cover(CoverA, "open", 50), Cover(CoverA, "closed", 0)}

InitCover ==
    InitLink(Config(CoverA, CoverB, "perfect"), Env(CoverInputs, FALSE),
             (CoverA :> Cover(CoverA, "closed", 0)) @@ (CoverB :> Cover(CoverB, "closed", 0)))

SpecCover == InitCover /\ [][NextLink]_vars

(* Two switches; the first is on, drops off the network and comes back; *)
(* the second is on or off the network from the start; time passes       *)
AvailInputs == {State(SwitchA, s, NoAttrs) : s \in {"on", "unavailable"}}

InitAvail ==
    \E s \in {"on", "unavailable"} :
        InitLink(Config(SwitchA, SwitchB, "perfect"), Env(AvailInputs, FALSE),
                 (SwitchA :> State(SwitchA, "on", NoAttrs)) @@ (SwitchB :> State(SwitchB, s, NoAttrs)))

SpecAvail == InitAvail /\ [][NextSwitch]_vars

(* Two switches, both off; the first is turned on by hand, either may be *)
(* removed, and a manual sync may be requested in either direction; time *)
(* stands still, so a direction that has mirrored stays inside its       *)
(* cooldown                                                              *)
ManualInputs == {State(SwitchA, "on", NoAttrs)}

NextManual ==
    \/ SetupEntry
    \/ \E s \in env.inputs : ExternalChange(s)
    \/ \E e \in Entities : ExternalRemove(e)
    \/ \E ok \in Outcomes : Deliver(ok)
    \/ \E i \in 1..Len(procs), ok \in Outcomes : Resume(i, ok)
    \/ \E i \in 1..Len(procs) : Finish(i)
    \/ ExecutorApply
    \/ \E source \in Entities, ok \in Outcomes : ManualSync(source, ok)

InitManual ==
    InitLink(Config(SwitchA, SwitchB, "perfect"), Env(ManualInputs, FALSE),
             (SwitchA :> State(SwitchA, "off", NoAttrs)) @@ (SwitchB :> State(SwitchB, "off", NoAttrs)))

SpecManual == InitManual /\ [][NextManual]_vars

(* Two switches, both off; the first is switched by hand while the link is *)
(* disabled and enabled again by its service and by its control switch     *)
NextToggle ==
    \/ SetupEntry
    \/ \E s \in env.inputs : ExternalChange(s)
    \/ \E ok \in Outcomes : Deliver(ok)
    \/ \E i \in 1..Len(procs), ok \in Outcomes : Resume(i, ok)
    \/ \E i \in 1..Len(procs) : Finish(i)
    \/ ExecutorApply
    \/ ToggleSync
    \/ SwitchTurnOn
    \/ SwitchTurnOff

InitToggle ==
    InitLink(Config(SwitchA, SwitchB, "perfect"), Env(SwitchInputs, FALSE),
             (SwitchA :> State(SwitchA, "off", NoAttrs)) @@ (SwitchB :> State(SwitchB, "off", NoAttrs)))

SpecToggle == InitToggle /\ [][NextToggle]_vars

(* Two switches, both off; the first is switched by hand; service calls *)
(* may raise; time passes                                                *)
InitFaulty ==
    InitLink(Config(SwitchA, SwitchB, "perfect"), Env(SwitchInputs, TRUE),
             (SwitchA :> State(SwitchA, "off", NoAttrs)) @@ (SwitchB :> State(SwitchB, "off", NoAttrs)))

SpecFaulty == InitFaulty /\ [][NextSwitch]_vars

(* A lock linked with another lock or with a switch, in either sync mode; *)
(* both are operated by hand; time passes.  Neither routine of the        *)
(* executor has a branch for locks                                        *)
LockA == Id("lock", "a")
LockB == Id("lock", "b")
LockInputs(second) ==
    {State(LockA, "unlocked", NoAttrs),
     State(second, IF DomainOf(second) = "lock" THEN "unlocked" ELSE "on", NoAttrs)}

InitLock ==
    \E mode \in {"perfect", "basic"}, second \in {LockB, SwitchB} :
        InitLink(Config(LockA, second, mode), Env(LockInputs(second), FALSE),
                 (LockA :> State(LockA, "locked", NoAttrs))
                     @@ (second :> State(second, IF DomainOf(second) = "lock" THEN "locked" ELSE "off",
                                         NoAttrs)))

SpecLock == InitLock /\ [][NextSwitch]_vars

(* Two lights, both off; the first is turned on, or changed while on, with *)
(* attributes of which some are out of range: a colour temperature of 100  *)
(* mired; brightness 300 with 180 mired; brightness 128 with 0 mired.      *)
(* Service calls may raise                                                 *)
AttrCases ==
    {("color_temp" :> 100),
     ("brightness" :> 300) @@ ("color_temp" :> 180),
     ("brightness" :> 128) @@ ("color_temp" :> 0)}

AttrInputs == {State(LightA, "on", a) : a \in AttrCases}

InitAttrs ==
    \E a \in AttrCases :
        InitLink(Config(LightA, LightB, "perfect"), Env(AttrInputs, TRUE),
                 (LightA :> State(LightA, "off", a)) @@ (LightB :> State(LightB, "off", NoAttrs)))

SpecAttrs == InitAttrs /\ [][NextLink]_vars

(* Two dimmable lights linked in basic mode, both on at brightness 100; *)
(* the first is dimmed to 150 or turned off by hand                      *)
BasicInputs == {Dimmed(LightA, 150), State(LightA, "off", ("brightness" :> 100))}

InitBasic ==
    InitLink(Config(LightA, LightB, "basic"), Env(BasicInputs, FALSE),
             (LightA :> Dimmed(LightA, 100)) @@ (LightB :> Dimmed(LightB, 100)))

SpecBasic == InitBasic /\ [][NextLink]_vars

(* Two switches of which the second has no state when the entry is loaded; *)
(* it appears later, and either may be switched or removed by hand         *)
AbsentInputs == {State(SwitchA, "on", NoAttrs), State(SwitchB, "on", NoAttrs)}

NextAbsent ==
    \/ SetupEntry
    \/ \E s \in env.inputs : ExternalAdd(s)
    \/ \E s \in env.inputs : ExternalChange(s)
    \/ \E e \in Entities : ExternalRemove(e)
    \/ \E ok \in Outcomes : Deliver(ok)
    \/ \E i \in 1..Len(procs), ok \in Outcomes : Resume(i, ok)
    \/ \E i \in 1..Len(procs) : Finish(i)
    \/ ExecutorApply

InitAbsent ==
    InitLink(Config(SwitchA, SwitchB, "perfect"), Env(AbsentInputs, FALSE),
             (SwitchA :> State(SwitchA, "off", NoAttrs)) @@ (SwitchB :> None))

SpecAbsent == InitAbsent /\ [][NextAbsent]_vars

\* the entry is loaded and every scheduled callback, suspended activation and
\* accepted call gets its turn; nothing obliges an entity to appear or change
FairAbsent ==
    /\ SpecAbsent
    /\ WF_vars(SetupEntry)
    /\ WF_vars(\E ok \in Outcomes : Deliver(ok))
    /\ WF_vars(\E i \in 1..Len(procs), ok \in Outcomes : Resume(i, ok))
    /\ WF_vars(\E i \in 1..Len(procs) : Finish(i))
    /\ WF_vars(ExecutorApply)

(* Two switches, the first switched by hand at most MaxSwitched times, *)
(* the clock moving in steps shorter than the cooldown                 *)
SpecCooldown ==
    InitSwitch /\ [][\/ SetupEntry
                     \/ \E s \in env.inputs : ext.n < MaxSwitched /\ ExternalChange(s)
                     \/ \E ok \in Outcomes : Deliver(ok)
                     \/ \E i \in 1..Len(procs), ok \in Outcomes : Resume(i, ok)
                     \/ \E i \in 1..Len(procs) : Finish(i)
                     \/ ExecutorApply
                     \/ ShortTick]_vars

(* Two number inputs at 0, the first set by hand to 0, 50 or 100 while the *)
(* link is at rest, with a history long enough to count the syncs of one   *)
(* second                                                                  *)
SpecBatch ==
    /\ InitLink(Config(Id("input_number", "a"), Id("input_number", "b"), "perfect"),
                [Env({State(Id("input_number", "a"), s, NoAttrs) : s \in {"0.0", "50.0", "100.0"}},
                     FALSE) EXCEPT !.max_sent = BatchSent],
                (Id("input_number", "a") :> State(Id("input_number", "a"), "0.0", NoAttrs))
                    @@ (Id("input_number", "b") :> State(Id("input_number", "b"), "0.0", NoAttrs)))
    /\ [][\/ SetupEntry
          \/ \E s \in env.inputs :
                events = <<>> /\ procs = <<>> /\ calls = <<>> /\ ExternalChange(s)
          \/ \E ok \in Outcomes : Deliver(ok)
          \/ \E i \in 1..Len(procs), ok \in Outcomes : Resume(i, ok)
          \/ \E i \in 1..Len(procs) : Finish(i)
          \/ ExecutorApply
          \/ Tick]_vars

(* Two switches, both off; the first is switched by hand up to DupChanges *)
(* times, each time with the link at rest; time passes                    *)
(* Two switches, both off; subscribing to either entity may fail when the *)
(* link is set up; the switches are switched by hand                      *)
SpecRegister ==
    /\ InitLink(Config(SwitchA, SwitchB, "perfect"),
                [Env(SwitchInputs, FALSE) EXCEPT !.registrations = BOOLEAN \X BOOLEAN],
                (SwitchA :> State(SwitchA, "off", NoAttrs))
                    @@ (SwitchB :> State(SwitchB, "off", NoAttrs)))
    /\ [][\/ SetupEntry
          \/ \E s \in env.inputs : ExternalChange(s)
          \/ \E ok \in Outcomes : Deliver(ok)
          \/ \E i \in 1..Len(procs), ok \in Outcomes : Resume(i, ok)
          \/ \E i \in 1..Len(procs) : Finish(i)
          \/ ExecutorApply]_vars

SpecDup ==
    /\ InitLink(Config(SwitchA, SwitchB, "perfect"),
                [Env(SwitchInputs, FALSE) EXCEPT !.max_sent = BatchSent,
                                                 !.max_external = DupChanges],
                (SwitchA :> State(SwitchA, "off", NoAttrs))
                    @@ (SwitchB :> State(SwitchB, "off", NoAttrs)))
    /\ [][\/ SetupEntry
          \/ \E s \in env.inputs :
                events = <<>> /\ procs = <<>> /\ calls = <<>> /\ ExternalChange(s)
          \/ \E ok \in Outcomes : Deliver(ok)
          \/ \E i \in 1..Len(procs), ok \in Outcomes : Resume(i, ok)
          \/ \E i \in 1..Len(procs) : Finish(i)
          \/ ExecutorApply
          \/ Tick]_vars

(* The action-state methods of the coordinator called on two lights, in *)
(* any order and by any master, with the clock moving                    *)
SpecAction ==
    InitDim /\ [][\/ \E e \in Entities, m \in Entities : StartProgressiveAction(e, m)
                  \/ \E e \in Entities : UpdateActionProgress(e)
                  \/ \E e \in Entities : ClearActionState(e)
                  \/ ActionTick]_vars

\* time passes and progress is reported; nothing obliges anybody to start or
\* to clear an action
FairAction ==
    /\ SpecAction
    /\ WF_vars(ActionTick)
    /\ WF_vars(\E e \in Entities : UpdateActionProgress(e))

(* The bounce detector fed with records of one light: on at brightness 200 *)
(* and 300 mired, off at brightness 200 and 330 mired, off at brightness 0  *)
(* and 300 mired; the clock may jump past the window between records        *)
BounceInputs ==
    {State(LightA, "on", ("brightness" :> 200) @@ ("color_temp" :> 300)),
     State(LightA, "off", ("brightness" :> 200) @@ ("color_temp" :> 330)),
     State(LightA, "off", ("brightness" :> 0) @@ ("color_temp" :> 300))}

InitBounce ==
    InitLink(Config(LightA, LightB, "perfect"), Env(BounceInputs, FALSE),
             (LightA :> State(LightA, "off", NoAttrs)) @@ (LightB :> State(LightB, "off", NoAttrs)))

SpecBounce ==
    InitBounce /\ [][(\E s \in env.inputs : RecordStateChange(s)) \/ BounceTick]_vars

----------------------------------------------------------------------------
(* Properties *)

\* the calls of the history that were invoked on an entity
MirrorsTo(e) == SelectSeq(sent, LAMBDA x : x.call.target = e)

\* nothing is scheduled, suspended or waiting to be served
Quiescent ==
    /\ events = <<>>
    /\ calls = <<>>
    /\ procs = <<>>
    /\ \A i \in 1..Len(tasks) : ~InFlight(tasks[i])

\* only entity1 was changed by hand, and all of it has been worked off
BurstMirrored ==
    /\ ext.n >= 1
    /\ ext.last[entity2_id] = None
    /\ Quiescent

\* C1 (supersession): after a burst of N >= 1 progressive changes of entity1,
\* all at the same instant, exactly one mirror action was invoked on entity2,
\* and it carries the parameters of the last change of the burst.
C1_Supersession ==
    BurstMirrored =>
        /\ Len(MirrorsTo(entity2_id)) = 1
        /\ <<MirrorsTo(entity2_id)[1].call>> = immediate_sync(ext.last[entity1_id], entity2_id)

\* C3 (one task per direction): in every reachable state the slot of a
\* direction holds at most one task, so at most one unfinished mirror task
\* exists per direction and none is queued behind another.
C3_OneTaskPerDirection ==
    \A source \in Entities :
        Cardinality({i \in 1..Len(tasks) : tasks[i].key = SyncKey(source, Other(source))}) <= 1

\* C3 witness: a task whose call was already invoked was cancelled by a newer
\* trigger; the slot holds the pending replacement alone.
C3_Replaced ==
    /\ last_master_entity = NoId
    /\ \E i \in 1..Len(tasks), j \in 1..Len(sent) :
          /\ tasks[i].key = SyncKey(entity1_id, entity2_id)
          /\ tasks[i].st = "pending"
          /\ sent[j].call.target = entity2_id
          /\ sent[j].source # tasks[i].source

\* the change an event reports stays below the thresholds of test_sync.py
WithinTolerance(ev) ==
    LET old == ev.old_state.attributes
        new == ev.new_state.attributes
    IN  /\ ev.old_state # None
        /\ ev.new_state.state = ev.old_state.state
        /\ DOMAIN old = DOMAIN new
        /\ \A k \in DOMAIN new :
              \/ old[k] = new[k]
              \/ k = "brightness" /\ ~should_sync_brightness(<<old[k]>>, <<new[k]>>)
              \/ k = "color_temp" /\ ~should_sync_color_temp(<<old[k]>>, <<new[k]>>)

\* C8 (tolerance boundary): a callback for a change that leaves the discrete
\* state alone and moves brightness by less than 5 (colour temperature by less
\* than 10) starts no mirror task and invokes no action.
C8_ToleranceBoundary ==
    [][(events # <<>> /\ events' = Tail(events) /\ WithinTolerance(Head(events)))
          => (tasks' = tasks /\ sent' = sent /\ calls' = calls)]_vars

\* C4 (no infinite mirror loop): once the changes made by hand have stopped,
\* the link comes to rest for good: no callback scheduled, no mirror in flight,
\* no call waiting to be served.
C4_NoInfiniteLoop == <>[]Quiescent

\* the j-th call of the history mirrors a state of entity2 back onto entity1
EchoAt(j) ==
    /\ sent[j].call.target = entity1_id
    /\ sent[j].source.entity_id = entity2_id

\* call j was invoked less than the cooldown after call i
InWindow(i, j) ==
    /\ sent[i].age < AgeCap
    /\ sent[i].age - sent[j].age < SyncCooldownMs

\* C2 (no echo): while entity2 is changed by nobody but the coordinator, every
\* event of entity2 confirms a mirror action; no mirror action back onto
\* entity1 is invoked within the cooldown of the mirror actions that precede it.
C2_NoEcho ==
    ext.last[entity2_id] = None =>
        \A j \in 1..Len(sent) :
            EchoAt(j) => \E i \in 1..(j - 1) :
                            sent[i].call.target = entity2_id /\ ~InWindow(i, j)

\* the target of a call already shows the state and the attributes it carries
AlreadyEqual(x) ==
    /\ store[x.call.target].state = x.source.state
    /\ \A k \in DOMAIN x.call.data :
          Get(store[x.call.target].attributes, k) = <<x.call.data[k]>>

\* C6 (idempotence): no step invokes an action on a target whose state and
\* mirrored attributes already equal the source state being mirrored.
C6_Idempotence ==
    [][Len(sent') = Len(sent) + 1 => ~AlreadyEqual(sent'[Len(sent')])]_vars

\* the link is idle: nothing in flight and the last sync of either direction
\* lies at least the cooldown back
Idle ==
    /\ ~sync_in_progress
    /\ procs = <<>>
    /\ calls = <<>>
    /\ \A k \in DOMAIN last_sync_times : last_sync_times[k] >= SyncCooldownMs

\* the only scheduled callback reports a change made by hand to e, its newest
\* state, and the link is idle
ExternalArrives(e) ==
    /\ Len(events) = 1
    /\ Head(events).entity_id = e
    /\ Head(events).origin = "external"
    /\ Head(events).new_state = store[e]
    /\ Idle

\* C5 (mirroring in both directions): a change made by hand that arrives while
\* the link is idle is eventually followed by the invocation of its mirror on
\* the other entity, carrying the newest state of the changed one (unless
\* somebody changes an entity by hand again before that).
C5_MirroredBothWays ==
    \A e \in {SwitchA, SwitchB}, n \in 1..MaxExternal :
        (ExternalArrives(e) /\ ext.n = n) ~> (ext.mirrored[e] \/ ext.n > n)

ColourModels == <<"hs_color", "rgb_color", "xy_color", "color_temp">>
ColourKeys == SeqToSet(ColourModels) \cup {"kelvin", "color_temp_kelvin"}

\* the colour parameters a call of the history carries
ColourOf(x) == Restrict(x.call.data, ColourKeys)

\* the first valid colour model of the attributes, in the order of ColourModels
PriorityColour(attributes) ==
    LET valid == {i \in 1..Len(ColourModels) :
                     /\ ColourModels[i] \in DOMAIN attributes
                     /\ ValidLightAttr(ColourModels[i], attributes[ColourModels[i]])}
    IN  IF valid = {} THEN NoAttrs
        ELSE LET first == CHOOSE i \in valid : \A j \in valid : i <= j
             IN  (ColourModels[first] :> attributes[ColourModels[first]])

\* the call carries no colour, or the colour model the priority order selects
ByPriority(x) == ColourOf(x) \in {NoAttrs, PriorityColour(x.source.attributes)}

\* call j carries the colour temperature of its source alone, after the call
\* with the selected colour model was rejected
Fallback(j) ==
    LET x == sent[j]
        attributes == x.source.attributes
    IN  /\ "color_temp" \in DOMAIN attributes
        /\ ValidColorTemp(attributes["color_temp"])
        /\ x.call.data \in {("color_temp" :> attributes["color_temp"]),
                            ("kelvin" :> 1000000 \div attributes["color_temp"]),
                            ("color_temp_kelvin" :> 1000000 \div attributes["color_temp"])}
        /\ \E i \in 1..(j - 1) :
              /\ sent[i].source = x.source
              /\ sent[i].call.target = x.call.target
              /\ ~sent[i].ok
              /\ ColourOf(sent[i]) # NoAttrs
              /\ ColourOf(sent[i]) = PriorityColour(attributes)

C9_ExactlyOneTurnOn ==
    (/\ ext.n = 1
     /\ Quiescent
     /\ ext.last[LightA] # None
     /\ ext.last[LightA].state = "on"
     /\ {"brightness", "hs_color"} \subseteq DOMAIN ext.last[LightA].attributes
     /\ \A i \in 1..Len(sent) : sent[i].ok)
    => /\ Len(MirrorsTo(LightB)) = 1
       /\ MirrorsTo(LightB)[1].call =
              Call(LightB, "light", "turn_on",
                   Restrict(ext.last[LightA].attributes, {"brightness", "hs_color"}))

\* C10 (cover position): every action that mirrors a cover state carrying a
\* position is a set_cover_position with exactly that position.
C10_SetPosition ==
    \A j \in 1..Len(sent) :
        (DomainOf(sent[j].source.entity_id) = "cover"
            /\ "position" \in DOMAIN sent[j].source.attributes)
        => /\ sent[j].call.service = "set_cover_position"
           /\ sent[j].call.data = Restrict(sent[j].source.attributes, {"position"})

\* some entity of the link reports 'unavailable'
Unavailable(states) == \E e \in Entities : states[e] # None /\ states[e].state = "unavailable"

\* C11: no mirror action is invoked while either entity of the link reports
\* 'unavailable'.
C11_NoMirrorWhileUnavailable ==
    [][Len(sent') > Len(sent) => ~Unavailable(store)]_vars

\* C12: once the link is set up, a step in which an entity is, becomes or
\* stops being 'unavailable' leaves the subscription handles as they were.
C12_SubscriptionsKept ==
    [][loaded /\ (Unavailable(store) \/ Unavailable(store')) => listeners' = listeners]_vars

\* the first switch went off the network and came back, every callback of
\* the episode has run, and both subscriptions are still there
C12_EpisodeOver ==
    /\ loaded
    /\ ext.n >= 2
    /\ ext.last[SwitchA] = State(SwitchA, "on", NoAttrs)
    /\ store[SwitchA].state = "on"
    /\ events = <<>>
    /\ listeners = <<SwitchA, SwitchB>>

\* the step is a manual sync request
ManualRequest == req'.n > req.n /\ req'.last.kind = "manual_sync"

\* the step runs a change callback up to its first suspension
CallbackRuns == events # <<>> /\ events' = Tail(events)

\* C13: a manual sync mirrors the current state of its source onto the other
\* entity once, whatever the cooldown and the duplicate cache say; when the
\* source has no state it invokes nothing and reports failure.
C13_ManualSync ==
    [][/\ ManualRequest =>
            LET source == req'.last.source
                target == Other(source)
            IN  IF store[source] = None
                THEN ~req'.last.found /\ sent' = sent /\ calls' = calls /\ procs' = procs
                ELSE /\ req'.last.found
                     /\ Len(procs') = Len(procs) + 1
                     /\ procs'[Len(procs')].source = store[source]
                     /\ procs'[Len(procs')].rest = <<>>
                     /\ store[target] # None =>
                            calls' = Append(calls, Call(target, "switch", OnOff(store[source]), NoAttrs))
       /\ Len(calls') > Len(calls) => ManualRequest \/ CallbackRuns]_vars

\* a manual sync has just mirrored the first switch again although the same
\* direction had mirrored the same state a moment ago
C13_ForcedThrough ==
    /\ req.last.kind = "manual_sync"
    /\ req.last.found
    /\ req.last.guarded
    /\ req.last.source = SwitchA
    /\ Len(sent) = 2
    /\ sent[1].source = store[SwitchA]
    /\ sent[2].source = store[SwitchA]
    /\ sent[2].call.target = SwitchB
    /\ procs # <<>>

\* C14: while the link is disabled, a change made to either entity invokes
\* no mirror: its callback neither calls a service nor starts a mirror task.
C14_DisabledIsSilent ==
    [][CallbackRuns /\ ~Head(events).linked /\ ~enabled =>
           sent' = sent /\ procs' = procs /\ tasks' = tasks]_vars

\* the step starts an activation of the sync executor for a target that has
\* no state
StartsWithoutTarget ==
    /\ Len(procs') = Len(procs) + 1
    /\ store[procs'[Len(procs')].target] = None

\* C16: when the target has no state the sync executor invokes no action, is
\* left with nothing to do but its finally block, and the in-progress flag
\* is false once no activation is left.
C16_TargetMissing ==
    [][/\ StartsWithoutTarget =>
            /\ sent' = sent
            /\ calls' = calls
            /\ procs'[Len(procs')].pc = "finally"
       /\ Len(sent') > Len(sent) => store[sent'[Len(sent')].call.target] # None
       /\ procs # <<>> /\ procs' = <<>> => ~sync_in_progress']_vars

\* the callback of a change of the first switch ran the executor after the
\* second switch was removed; the executor has ended without any call
C16_GaveUp ==
    /\ store[SwitchB] = None
    /\ SyncKey(SwitchA, SwitchB) \in DOMAIN last_sync_times
    /\ sent = <<>>
    /\ procs = <<>>
    /\ events = <<>>
    /\ ~sync_in_progress

\* activation i resumes in this step from a call that raised
ResumesFromFailure(i) ==
    /\ Len(procs') = Len(procs)
    /\ procs'[i] # procs[i]
    /\ ~procs[i].ok

\* the callback that runs in this step passes every guard of its handler
CallbackPasses ==
    /\ CallbackRuns
    /\ handle_entity_change(Head(events).entity_id, Head(events).old_state,
                            Head(events).new_state) = "sync"

C17_RetriedAfterFailure ==
    Quiescent /\ Len(sent) < MaxSent =>
        \A i \in 1..Len(sent) :
            ~sent[i].ok /\ sent[i].age >= AgeCap =>
                \E j \in (i + 1)..Len(sent) : sent[j].call = sent[i].call

\* the domains _perfect_sync has a branch for
PerfectDomains ==
    {"light", "switch", "cover", "fan", "climate", "humidifier", "water_heater", "vacuum",
     "media_player", "scene", "script", "input_boolean", "input_select", "input_number",
     "input_text"}

\* the target domains _basic_sync has a branch for
BasicDomains ==
    {"light", "switch", "fan", "humidifier", "input_boolean", "cover", "climate",
     "water_heater", "vacuum", "media_player", "scene", "script", "input_select",
     "input_number"}

\* the routine the executor picks for the pair has no branch for it
Unsupported(source, target) ==
    IF config.sync_mode = "perfect" /\ DomainOf(source) = DomainOf(target)
    THEN DomainOf(source) \notin PerfectDomains
    ELSE DomainOf(target) \notin BasicDomains

\* the step starts an activation of the sync executor for an unsupported pair
StartsUnsupported ==
    /\ Len(procs') = Len(procs) + 1
    /\ Unsupported(procs'[Len(procs')].source.entity_id, procs'[Len(procs')].target)

\* C18: a mirror attempt for a domain the executor has no branch for invokes
\* no action and ends like any other attempt: it goes straight to the finally
\* block, and the in-progress flag is false once no activation is left.
C18_UnsupportedNoOp ==
    /\ [](procs = <<>> => ~sync_in_progress)
    /\ [][StartsUnsupported =>
              (sent' = sent /\ calls' = calls /\ procs'[Len(procs')].pc = "finally")]_vars

\* two locks were operated by hand, the executor ran for the first one and
\* has ended; nothing was ever called
C18_LockIgnored ==
    /\ DomainOf(entity2_id) = "lock"
    /\ SyncKey(LockA, LockB) \in DOMAIN last_sync_times
    /\ store[LockA].state = "unlocked"
    /\ store[LockB].state = "locked"
    /\ sent = <<>>
    /\ procs = <<>>
    /\ events = <<>>
    /\ ~sync_in_progress

\* a / b rounded to the nearest integer
RoundDiv(a, b) == (2 * a + b) \div (2 * b)

Clamp(v, lo, hi) == IF v < lo THEN lo ELSE IF v > hi THEN hi ELSE v

\* C19: a colour temperature sent as kelvin is round(1,000,000 / mired)
\* clamped to [2700, 6500].
C19_KelvinClamped ==
    \A i \in 1..Len(sent) :
        \A k \in {"kelvin", "color_temp_kelvin"} \cap DOMAIN sent[i].call.data :
            sent[i].call.data[k] =
                Clamp(RoundDiv(1000000, sent[i].source.attributes["color_temp"]), 2700, 6500)

\* the attributes of a light state that are invalid: out of range or malformed
InvalidAttrs(attributes) ==
    {k \in DOMAIN attributes \cap SeqToSet(light_attrs) : ~ValidLightAttr(k, attributes[k])}

\* the brightness of the attributes, when valid
ValidBrightnessOf(attributes) ==
    IF "brightness" \in DOMAIN attributes /\ ValidBrightness(attributes["brightness"])
    THEN Restrict(attributes, {"brightness"}) ELSE NoAttrs

\* what one action carries for a light that is on: the valid brightness and
\* the valid colour model selected by priority
WholeAction(attributes) == ValidBrightnessOf(attributes) @@ PriorityColour(attributes)

\* what the first action of the sync executor carries: the brightness when
\* valid, else the selected colour model, else nothing
FirstAction(attributes) ==
    IF ValidBrightnessOf(attributes) # NoAttrs THEN ValidBrightnessOf(attributes)
    ELSE PriorityColour(attributes)

\* the step gives mirror task i its first turn, for a light that is on
TaskStarts(i) ==
    /\ events' = events
    /\ Len(tasks') = Len(tasks)
    /\ tasks[i].st = "pending"
    /\ tasks' # tasks
    /\ \A j \in 1..Len(tasks) : j # i => tasks'[j] = tasks[j]
    /\ tasks[i].source.state = "on"
    /\ store[tasks[i].target] # None

\* the step starts an activation of the sync executor for a light that is on
LightSyncStarts ==
    /\ Len(procs') = Len(procs) + 1
    /\ procs'[Len(procs')].source.state = "on"

C21_ProjectionOnly ==
    \A j \in 1..Len(sent) :
        sent[j].call = Call(sent[j].call.target, "light",
                            IF is_on(sent[j].source) THEN "turn_on" ELSE "turn_off", NoAttrs)

\* C22: in every state of the link get_sync_status returns a record with the
\* enabled flag and a summary of both entities, a missing entity being
\* reported as not existing.
C22_StatusReported ==
    /\ get_sync_status.returned
    /\ get_sync_status.enabled = enabled
    /\ \A e \in Entities :
          \E x \in {get_sync_status.entity1, get_sync_status.entity2} :
              x.id = e /\ x.exists = (store[e] # None)

\* both entities of the link have a state
BothResolve == store[entity1_id] # None /\ store[entity2_id] # None

\* C23: a link whose entity did not resolve does not fail for good: once both
\* entities resolve, the link comes to hold a subscription for each of them
\* (unless one goes missing again first).
C23_Reacquired ==
    BothResolve ~> (Entities \subseteq SeqToSet(listeners) \/ ~BothResolve)

\* the records of light.a, each with the record before it, newest last
Records == IF LightA \in DOMAIN state_history THEN state_history[LightA] ELSE <<>>

\* positions of the records of light.a taken within the last 5 s
Recent == {i \in 1..Len(Records) : Records[i].age <= 5000}

\* positions of recent records whose predecessor is recent too and differs
\* from them by the given test
Jumps(differs(_, _)) ==
    {i \in Recent : i - 1 \in Recent /\ differs(Records[i - 1], Records[i])}

C25_NoCancelMidCall ==
    [][\A i \in 1..Len(tasks) :
           tasks[i].st = "calling" =>
               \E j \in 1..Len(tasks') :
                   /\ tasks'[j].key = tasks[i].key
                   /\ tasks'[j].st \in {"calling", "done"}]_vars

\* C26: at most one execution of _sync_to_entity is in flight at any time,
\* whoever started it, and the sync-in-progress flag is true as long as one is.
C26_MutuallyExclusive ==
    /\ Len(procs) <= 1
    /\ procs # <<>> => sync_in_progress

\* a callback of the source permits a mirror in this step: it records the
\* time of its direction and starts the sync executor
Permits(source) ==
    /\ events # <<>>
    /\ Head(events).entity_id = source
    /\ events' = Tail(events)
    /\ Len(procs') = Len(procs) + 1
    /\ SyncKey(source, Other(source)) \in DOMAIN last_sync_times'
    /\ last_sync_times'[SyncKey(source, Other(source))] = 0

\* C27: the cooldown is per link: no callback permits a mirror while the last
\* permitted mirror of the opposite direction lies less than the cooldown back.
C27_OppositeSuppressed ==
    [][\A source \in Entities :
           Permits(source) =>
               ~ /\ SyncKey(Other(source), source) \in DOMAIN last_sync_times
                 /\ last_sync_times[SyncKey(Other(source), source)] < SyncCooldownMs]_vars

\* a callback of the source starts the sync executor in this step
CallbackStarts(source) ==
    /\ events # <<>>
    /\ Head(events).entity_id = source
    /\ events' = Tail(events)
    /\ Len(procs') = Len(procs) + 1

\* C28: the step in which a callback passes the cooldown check records the
\* time of its direction, before the executor's first suspension; so while an
\* executor is in flight, and in every step that invokes a mirror call, the
\* timestamp of the direction is there.
C28_RecordedBeforeMirror ==
    /\ [][\A source \in Entities :
              CallbackStarts(source) =>
                  /\ SyncKey(source, Other(source)) \in DOMAIN last_sync_times'
                  /\ last_sync_times'[SyncKey(source, Other(source))] = 0]_vars
    /\ [](\A i \in 1..Len(procs) :
              SyncKey(procs[i].source.entity_id, procs[i].target) \in DOMAIN last_sync_times)
    /\ [][Len(sent') = Len(sent) + 1 =>
              SyncKey(sent'[Len(sent')].source.entity_id, sent'[Len(sent')].call.target)
                  \in DOMAIN last_sync_times']_vars

\* the executor of a->b is suspended and the event of switch.b that its call
\* caused is next: its callback finds the timestamp of a->b recorded
C28_OtherCallbackPending ==
    /\ procs # <<>>
    /\ procs[1].source.entity_id = entity1_id
    /\ events # <<>>
    /\ Head(events).entity_id = entity2_id
    /\ SyncKey(entity1_id, entity2_id) \in DOMAIN last_sync_times
    /\ last_sync_times[SyncKey(entity1_id, entity2_id)] = 0

\* C29: a callback starts the sync executor only if every mirror call of its
\* direction in the history, and the timestamp of the direction, lie at least
\* the effective cooldown back; a callback that does not start the executor
\* leaves every timestamp as it was.
C29_SameDirectionCooldown ==
    /\ [][\A source \in Entities :
              CallbackStarts(source) =>
                  /\ \A j \in 1..Len(sent) :
                        (sent[j].source.entity_id = source /\ sent[j].call.target = Other(source))
                            => sent[j].age >= effective_cooldown
                  /\ SyncKey(source, Other(source)) \in DOMAIN last_sync_times
                        => last_sync_times[SyncKey(source, Other(source))] >= effective_cooldown]_vars
    /\ [][(events # <<>> /\ events' = Tail(events) /\ procs' = procs)
              => last_sync_times' = last_sync_times]_vars

\* switch.a was mirrored once, then changed again within the cooldown: the
\* callback got as far as the cooldown check (it cached the state) and was
\* suppressed there; the timestamp of a->b is still the one of the mirror
C29_SuppressedByCooldown ==
    /\ Len(sent) = 1
    /\ sent[1].source.entity_id = entity1_id
    /\ ext.last[entity1_id] # None
    /\ sent[1].source # ext.last[entity1_id]
    /\ CacheKey(entity1_id, ext.last[entity1_id]) \in DOMAIN state_cache
    /\ events = <<>>
    /\ procs = <<>>
    /\ last_sync_times[SyncKey(entity1_id, entity2_id)] = sent[1].age
    /\ sent[1].age > 0
    /\ sent[1].age < SyncCooldownMs
    /\ state_cache[CacheKey(entity1_id, ext.last[entity1_id])].age = 0

\* the oldest scheduled callback runs in this step
CallbackRunsNow == events # <<>> /\ events' = Tail(events)

\* the callback gets as far as telling the kind of the change: no sync is in
\* progress and the event has both states
Classified(ev) == ~sync_in_progress /\ ev.old_state # None /\ ev.new_state # None

\* a progressive attribute of the entity's domain differs between the states
ProgressiveDiffers(ev) ==
    \E k \in SeqToSet(progressive_attributes(DomainOf(ev.entity_id))) :
        Get(ev.old_state.attributes, k) # Get(ev.new_state.attributes, k)

\* the step leaves a fresh mirror task for the event as the newest task
TaskCreatedFor(ev) ==
    /\ tasks' # <<>>
    /\ tasks'[Len(tasks')] = Task(SyncKey(ev.entity_id, Other(ev.entity_id)), ev.new_state,
                                  Other(ev.entity_id), "pending")

C31_AbsentOldIsSignificant ==
    [][(CallbackRunsNow /\ ~sync_in_progress /\ Head(events).new_state # None
           /\ (Head(events).old_state = None
                  \/ Head(events).old_state.state # Head(events).new_state.state))
          => \/ procs' # procs
             \/ tasks' # tasks
             \/ is_duplicate_state(Head(events).entity_id, Head(events).new_state)
             \/ cooldown_active(SyncKey(Head(events).entity_id,
                                        Other(Head(events).entity_id)))]_vars

\* C32: a callback that routes a progressive change of an entity leaves the
\* action state of that entity at starting or in_progress with the entity as
\* its master.
C32_ProgressiveDrivesActionState ==
    [][(CallbackRunsNow /\ Classified(Head(events)) /\ ProgressiveDiffers(Head(events)))
          => /\ Head(events).entity_id \in DOMAIN action_states'
             /\ action_states'[Head(events).entity_id].state \in {"starting", "in_progress"}
             /\ action_states'[Head(events).entity_id].master_entity
                   = Head(events).entity_id]_vars

C34_BatchCooldown ==
    effective_cooldown =
        IF Cardinality({j \in 1..Len(sent) : sent[j].age < DuplicateWindowMs}) > 5
        THEN (SyncCooldownMs * 3) \div 2 ELSE SyncCooldownMs

\* the callback running now is for a flip of the discrete state that the
\* handler classifies and that is not a progressive change
InstantFlipNow ==
    /\ CallbackRunsNow
    /\ Classified(Head(events))
    /\ ~ProgressiveDiffers(Head(events))
    /\ Head(events).old_state.state # Head(events).new_state.state

\* the mirror calls of the history made for exactly the state of the event
MirrorsOf(ev) == {j \in 1..Len(sent) : sent[j].source = ev.new_state}

\* C35: a flip to a state of the entity that was mirrored less than 1 s ago is
\* suppressed: nothing is invoked, no executor starts, and the timestamps and
\* the cache stay as they are; a flip to a state whose mirrors all lie 1 s or
\* more back (the history being complete) passes the duplicate check: its
\* cache entry is renewed and the cooldown alone decides whether the executor
\* starts.
C35_DuplicateWindow ==
    [][InstantFlipNow =>
          LET ev == Head(events)
              key == CacheKey(ev.entity_id, ev.new_state)
          IN  /\ (\E j \in MirrorsOf(ev) : sent[j].age < DuplicateWindowMs)
                    => /\ procs' = procs
                       /\ sent' = sent
                       /\ last_sync_times' = last_sync_times
                       /\ state_cache' = state_cache
              /\ (Len(sent) < env.max_sent /\ MirrorsOf(ev) # {}
                     /\ \A j \in MirrorsOf(ev) : sent[j].age >= DuplicateWindowMs)
                    => /\ key \in DOMAIN state_cache'
                       /\ state_cache'[key].age = 0
                       /\ \/ procs' # procs
                          \/ cooldown_active(SyncKey(ev.entity_id, Other(ev.entity_id)))]_vars

\* the callback running now finds the sync-in-progress flag set
BusyCallbackNow == CallbackRunsNow /\ sync_in_progress

\* C36: a callback that runs while the sync-in-progress flag is set invokes
\* nothing and starts no executor, and leaves the cooldown timestamps, the
\* duplicate cache and the task slots as they are; its event leaves the queue
\* and is not put back: the queue grows only by a change of the state store,
\* never by the step in which an executor finishes.
C36_BusyCallbackDiscards ==
    /\ [][BusyCallbackNow
            => (/\ sent' = sent /\ calls' = calls /\ procs' = procs
                /\ last_sync_times' = last_sync_times
                /\ state_cache' = state_cache
                /\ tasks' = tasks
                /\ sync_in_progress' = sync_in_progress)]_vars
    /\ [][(Len(events') > Len(events) \/ (events' # events /\ Len(events') = Len(events)))
            => store' # store]_vars
    /\ [][Len(procs') < Len(procs) => events' = events]_vars

\* two hand changes of the linked switches have had their callbacks while the
\* executor of the first still holds the flag: the second was discarded, one
\* call was made and one cache entry written
C36_BusyFlipDiscarded ==
    /\ sync_in_progress
    /\ procs # <<>>
    /\ events = <<>>
    /\ ext.n = 2
    /\ Len(sent) = 1
    /\ Cardinality(DOMAIN state_cache) = 1
    /\ Cardinality(DOMAIN last_sync_times) = 1

\* the subscriptions the coordinator holds for an entity
SubscriptionsOf(e) == {i \in 1..Len(listeners) : listeners[i] = e}

\* C37: the coordinator holds at most two subscriptions, at most one for each
\* entity, and exactly two while it is loaded and enabled with both entities
\* present.
C37_AtMostOneSubscriptionEach ==
    /\ Len(listeners) <= 2
    /\ \A e \in {entity1_id, entity2_id} : Cardinality(SubscriptionsOf(e)) <= 1
    /\ (loaded /\ enabled /\ store[entity1_id] # None /\ store[entity2_id] # None)
          => Len(listeners) = 2

\* C38: once the link is set up the coordinator holds both subscriptions or
\* none: no outcome of async_setup leaves exactly one entity subscribed.
C38_SetupAllOrNothing ==
    loaded => (Cardinality(SubscriptionsOf(entity1_id))
                 = Cardinality(SubscriptionsOf(entity2_id)))

\* a step in which the coordinator invokes a service
InvokesNow == Len(sent') > Len(sent) \/ Len(calls') > Len(calls)

\* C39: while the link's entry is unloaded the coordinator holds no
\* subscription, and no step invokes a service for the link: neither a
\* callback scheduled earlier nor a mirror task that was in flight.
C39_UnloadedIsSilent ==
    /\ [](~loaded => listeners = <<>>)
    /\ [][(~loaded /\ ~loaded') => ~InvokesNow]_vars

\* C40: the services of the integration are registered exactly while
\* hass.data holds a coordinator, and a registered service keeps the handler
\* it got when it was registered: the setup of a later entry does not
\* register it again.
C40_ServicesWhileLoaded ==
    /\ [](DOMAIN services = IF loaded \/ other_entries # {} THEN ServiceNames ELSE {})
    /\ [][\A n \in DOMAIN services \cap DOMAIN services' : services'[n] = services[n]]_vars

\* another entry registered the services, the link was set up after it, and
\* the other entry has been unloaded: the services are still those it
\* registered
C40_ServicesOutliveFirstEntry ==
    /\ loaded
    /\ other_entries = {}
    /\ DOMAIN services = ServiceNames
    /\ \A n \in ServiceNames : services[n] = 1


====
